---- MODULE Spec2Model ----
(***************************************************************************)
(* A model of the AutoRia monitoring bot: the poll scheduler               *)
(* (src/src/bot/scheduler.py), the seen-cars repository                    *)
(* (src/src/database/repository.py) and the query construction of the      *)
(* search client (src/src/parser/scraper.py).                              *)
(*                                                                         *)
(* Strings are sequences of Unicode code points, so that str.lower() and   *)
(* the substring test `a in b` are computed, not assumed.                  *)
(***************************************************************************)
EXTENDS Integers, Sequences, FiniteSets, TLC

\* ------------------------------------------------------------------ bounds
\* Rows of the searches table in the scheduler specification Spec.
MaxSubs == 2
\* Rows of the searches table in the many-subscriptions specification SpecMany.
MaxSubsMany == 6
\* Telegram users.
NumUsers == 2
\* Listing ids the marketplace can serve.
NumCars == 3
\* Longest result page the marketplace serves in Spec.
MaxPage == 2
\* Most objects in the state of a page given to the extractor.
MaxAds == 2
\* Most objects in the state of a page that answers a search.
MaxListings == 2
\* Callers of one cached getter that can be inside it at once.
MaxCalls == 2
\* Seconds the clock moves on from its start.
MaxElapsed == 3601
\* The listings of one result page when the page is a long one.
MaxListingsMany == 7

\* --------------------------------------------------------- program constants
\* scheduler.py:12  MAX_CONCURRENCY = 5
MAX_CONCURRENCY == 5
\* scraper.py:66  self._details_concurrency = 6
DetailsConcurrency == 6
\* scraper.py:54  CACHE_TTL = 3600
CACHE_TTL == 3600
\* time.time() when the process starts: far more than CACHE_TTL after the epoch.
StartTime == 10000
\* How far the clock moves between two events: just under, exactly and just over
\* the time to live.
TickSteps == {CACHE_TTL - 1, CACHE_TTL, CACHE_TTL + 1}

\* ------------------------------------------------------------------ strings
\* Python's None for an Optional[str]: no code point is negative.
None == <<-1>>

\* "Будь-яка"
BudYaka == <<1041, 1091, 1076, 1100, 45, 1103, 1082, 1072>>
\* "Всі моделі"
VsiModeli == <<1042, 1089, 1110, 32, 1084, 1086, 1076, 1077, 1083, 1110>>
\* "Camry"
Camry == <<67, 97, 109, 114, 121>>

\* The titles of the listings on the marketplace, by listing id:
\* "Toyota Camry 2015", "Toyota Corolla 2016", "TOYOTA CAMRY", "Auto".
Titles ==
    << <<84, 111, 121, 111, 116, 97, 32, 67, 97, 109, 114, 121, 32, 50, 48, 49, 53>>,
       <<84, 111, 121, 111, 116, 97, 32, 67, 111, 114, 111, 108, 108, 97, 32, 50, 48, 49, 54>>,
       <<84, 79, 89, 79, 84, 65, 32, 67, 65, 77, 82, 89>>,
       <<65, 117, 116, 111>> >>

\* The model names a row of the searches table can carry (model_name TEXT, nullable).
ModelNames == << Camry, BudYaka, None, VsiModeli, <<67, 65, 77, 82, 89>> >>

\* str.lower() on one code point: Latin A-Z and Cyrillic U+0410..U+042F map 32 up,
\* Cyrillic U+0400..U+040F map 80 up; everything else is unchanged.
LowerChar(c) ==
    IF (c >= 65 /\ c <= 90) \/ (c >= 1040 /\ c <= 1071) THEN c + 32
    ELSE IF c >= 1024 /\ c <= 1039 THEN c + 80
    ELSE c

\* str.lower()
Lower(s) == [k \in 1..Len(s) |-> LowerChar(s[k])]

\* Python's `needle in hay` on strings.
Contains(needle, hay) ==
    \E k \in 0..(Len(hay) - Len(needle)) :
        SubSeq(hay, k + 1, k + Len(needle)) = needle

\* Python truthiness of an Optional[str].
Truthy(s) == s # None /\ s # <<>>

\* ------------------------------------------------------------------- domains
Users == 1..NumUsers
Cars == 1..NumCars
Pairs == Users \X Cars

TitleOf(c) == Titles[((c - 1) % Len(Titles)) + 1]

\* scraper.py CarDTO, reduced to the fields the scheduler's control flow reads.
CarDTO(c) == [id |-> c, title |-> TitleOf(c)]

\* What search_cars can return: the extractor dedups by id (scraper.py:335), so a
\* page never holds the same listing id twice.
PagesOver(ids, n) ==
    { [k \in DOMAIN s |-> CarDTO(s[k])] :
        s \in { t \in UNION { [1..k -> ids] : k \in 0..n } :
                  \A a, b \in DOMAIN t : a # b => t[a] # t[b] } }

\* A row of the searches table (setup.py:57-81), reduced to the columns the
\* scheduler reads after the search call.
Row(i, owner, name) == [id |-> i, user_id |-> owner, model_name |-> name, status |-> "active"]
\* A legacy row that is not active.
InactiveRow == [id |-> 0, user_id |-> 1, model_name |-> None, status |-> "inactive"]
NameOf(k) == ModelNames[((k - 1) % Len(ModelNames)) + 1]
\* n rows, owned two by two by the same user, the first named ModelNames[k].
Table(n, k) ==
    { Row(i, (((i - 1) \div 2) % NumUsers) + 1, NameOf(i + k - 1)) : i \in 1..n }
        \cup {InactiveRow}
\* n rows of one user.
TableOfOne(n) == { Row(i, 1, NameOf(i)) : i \in 1..n } \cup {InactiveRow}

\* -------------------------------------------------------------------- state
VARIABLES
    searches,    \* the searches table
    seen_cars,   \* the seen_cars table: (user_id, car_id) -> number of rows
    market,      \* the result pages the marketplace serves
    sched_pc,    \* start_scheduler: "warmup", "ready", "gather", "sleep", "stopped"
    last_cycle,  \* how the last check_new_cars call ended: "none", "ok", "idle", "error"
    units,       \* the tasks of the running cycle, one per active row
    sem,         \* free permits of the cycle's semaphore
    called,      \* history: pairs for which an is_car_seen call has returned
    attempts,    \* history: (user, car) -> number of delivery attempts
    unpaced,     \* history: units that attempted a delivery and have not slept since
    delivered    \* history: pairs whose delivery succeeded

schedVars == <<searches, seen_cars, market, sched_pc, last_cycle, units, sem,
               called, attempts, unpaced, delivered>>

VARIABLES
    q_pc,        \* "idle", "row" (a unit is about to search for q_row), "built"
    q_row,       \* the filter columns of the row whose search is being issued
    q_params     \* the query parameters search_cars built for it

queryVars == <<q_pc, q_row, q_params>>

VARIABLES
    x_pc,        \* _extract_cars_from_pinia: "idle", "html", "state", "found", "results", "done"
    x_html,      \* the page given to the extractor
    x_json,      \* json_data
    x_found,     \* found: the objects collect() took for advertisements
    x_results,   \* results: the listings built from them
    x_out        \* the list returned

extractVars == <<x_pc, x_html, x_json, x_found, x_results, x_out>>

VARIABLES
    s_pc,        \* search_cars: "idle", "request", "page", "enrich", "done"
    s_status,    \* r.status of the page request, 0 before the answer
    s_html,      \* the body of the page
    s_exit,      \* how the call ended: "none", "status", "empty", "error", "enriched"
    s_result,    \* the list returned
    e_tasks,     \* the enrich_one tasks, one per extracted listing: the listing, the
                 \* task's position and how its detail fetch went
    e_sem,       \* free permits of the enricher's semaphore
    e_order,     \* history: the tasks in the order they completed
    e_fetched    \* history: the tasks that issued a detail fetch

scrapeVars == <<s_pc, s_status, s_html, s_exit, s_result, e_tasks, e_sem, e_order, e_fetched>>

VARIABLES
    clock,               \* time.time()
    brands_cache,        \* AutoRiaScraper._brands_cache
    brands_last_update,  \* AutoRiaScraper._brands_last_update
    states_cache,        \* AutoRiaScraper._states_cache
    states_last_update,  \* AutoRiaScraper._states_last_update
    models_cache,        \* AutoRiaScraper._models_cache: brand id -> list
    models_since,        \* history: brand id -> the time its list was first stored
    calls,               \* the callers of a getter: at rest or waiting for the answer
    c_ret                \* history: the last return of a getter

cacheVars == <<clock, brands_cache, brands_last_update, states_cache, states_last_update,
               models_cache, models_since, calls, c_ret>>

VARIABLES
    f_state,     \* the FSM state of the user: "none" or a state of SubscriptionForm
    f_data,      \* the FSM data of the user: key -> value
    f_done,      \* history: the steps that set their next state since start_sub
    f_insert     \* history: the row add_search inserted in the last step, if any

flowVars == <<f_state, f_data, f_done, f_insert>>

\* Everything but the scheduler's state.
notSched == <<queryVars, extractVars, scrapeVars, cacheVars, flowVars>>
\* Everything but the query construction's state.
notQuery == <<schedVars, extractVars, scrapeVars, cacheVars, flowVars>>
\* Everything but the extractor's state.
notExtract == <<schedVars, queryVars, scrapeVars, cacheVars, flowVars>>
\* Everything but the state of a search_cars call.
notScrape == <<schedVars, queryVars, extractVars, cacheVars, flowVars>>
\* Everything but the caches' state.
notCache == <<schedVars, queryVars, extractVars, scrapeVars, flowVars>>
\* Everything but the conversation's state.
notFlow == <<schedVars, queryVars, extractVars, scrapeVars, cacheVars>>

\* ---------------------------------------------------------------- repository
\* INSERT INTO seen_cars ... ON CONFLICT (user_id, car_id) DO NOTHING, on a table
\* with UNIQUE(user_id, car_id): the command tag and the table afterwards.
InsertReplacingAll(table, pair) ==
    [tag |-> IF table[pair] > 0 THEN "INSERT 0 0" ELSE "INSERT 0 1",
     table |-> [p \in DOMAIN table |-> IF p = pair THEN 1 ELSE 0]]

InsertDoNothingDup(table, pair) ==
    [tag |-> "INSERT 0 1", table |-> [table EXCEPT ![pair] = @ + 1]]

InsertDoNothing(table, pair) ==
    IF table[pair] > 0
    THEN [tag |-> "INSERT 0 0", table |-> table]
    ELSE [tag |-> "INSERT 0 1", table |-> [table EXCEPT ![pair] = 1]]

\* DatabaseRepo.is_car_seen: True when the pair was already there.
IsCarSeenInverted(table, user_id, car_id) ==
    LET r == InsertDoNothing(table, <<user_id, car_id>>)
    IN  [seen |-> r.tag = "INSERT 0 1", table |-> r.table]

IsCarSeen(table, user_id, car_id) ==
    LET r == InsertDoNothing(table, <<user_id, car_id>>)
    IN  [seen |-> r.tag # "INSERT 0 1", table |-> r.table]

GetEverySearch(table) == table

\* DatabaseRepo.get_active_searches
GetActiveSearches(table) == { r \in table : r.status = "active" }

DeleteSearchById(table, search_id, user_id) == { r \in table : r.id # search_id }

\* DatabaseRepo.delete_search
DeleteSearch(table, search_id, user_id) ==
    { r \in table : ~(r.id = search_id /\ r.user_id = user_id) }

\* ----------------------------------------------------------------- scheduler
\* process_search, lines 46-63: the name-based safety filter.
AnyModelNames == {BudYaka, VsiModeli}

SafetyFilterCaseSensitive(target_model, found_cars) ==
    IF Truthy(target_model) /\ target_model \notin AnyModelNames
    THEN SelectSeq(found_cars, LAMBDA car : Contains(target_model, car.title))
    ELSE found_cars

SafetyFilterReversed(target_model, found_cars) ==
    LET kept == IF Truthy(target_model) /\ target_model \notin AnyModelNames
                THEN SelectSeq(found_cars,
                               LAMBDA car : Contains(Lower(target_model), Lower(car.title)))
                ELSE found_cars
    IN  [k \in 1..Len(kept) |-> kept[Len(kept) + 1 - k]]

SafetyFilter(target_model, found_cars) ==
    IF Truthy(target_model) /\ target_model \notin AnyModelNames
    THEN SelectSeq(found_cars, LAMBDA car : Contains(Lower(target_model), Lower(car.title)))
    ELSE found_cars

SeqOfFirstRow(S) ==
    [k \in 1..Cardinality(S) |-> CHOOSE x \in S : \A y \in S : x.id <= y.id]

\* The rows a cycle works on, as the list the tasks are created from.
RECURSIVE SeqOfRows(_)
SeqOfRows(S) ==
    IF S = {} THEN <<>>
    ELSE LET r == CHOOSE x \in S : \A y \in S : x.id <= y.id
         IN  <<r>> \o SeqOfRows(S \ {r})

NewUnit(row) ==
    [search |-> row, pc |-> "wait", found |-> <<>>, cars |-> <<>>, i |-> 0,
     marked |-> {}, outcome |-> "pending"]

\* The unit after it is through with the listing at its index: the next listing,
\* or the end of process_search.
\* process_search returns: its locals are gone, the task keeps how it ended.
Finish(unit, outcome) == [NewUnit(unit.search) EXCEPT !.pc = "done", !.outcome = outcome]

Advance(unit) ==
    IF unit.i < Len(unit.cars)
    THEN [unit EXCEPT !.pc = "check", !.i = @ + 1]
    ELSE Finish(unit, "returned")

PairOf(unit) == <<unit.search.user_id, unit.cars[unit.i].id>>

\* `async with semaphore`: a unit enters when a permit is free.
SemCanAcquireAlways(permits) == TRUE

SemCanAcquire(permits) == permits > 0

\* Leaving `async with semaphore` (lines 26-41), by the end of the block or by the
\* return in the except clause, gives the permit back.
SemKept(permits) == permits

SemRelease(permits) == permits + 1

\* process_search, lines 39-41: `except Exception` around search_cars logs and
\* returns, so the task ends without an exception.
SearchErrorPropagates == "raised"

SearchErrorOutcome == "search_error"

\* `await asyncio.gather(*tasks)`: the call raises when a task ended with an
\* exception, and returns otherwise.
CycleResult(tasks) ==
    IF \E u \in DOMAIN tasks : tasks[u].outcome = "raised" THEN "error" ELSE "ok"

\* process_search, lines 98-99: the inner `except Exception` around the send logs,
\* and the for loop goes on with the next listing.
OnSendErrorAbort(unit) == Finish(unit, "returned")

OnSendError(unit) == Advance(unit)

\* start_scheduler, lines 147-150: `except Exception` around check_new_cars logs and
\* falls through to the sleep.
OnCycleErrorStop == "stopped"

OnCycleError == "sleep"

\* -------------------------------------------------------------- query model
\* A nullable INT column: <<>> is NULL (Python None), <<v>> is the value v.
Null == <<>>
\* Ids come from callback data parsed by int(); years and prices from str.isdigit().
IdColumn == {Null, <<-1>>, <<0>>, <<7>>}
NumColumn == {Null, <<0>>, <<2010>>}

FilterRows ==
    [brand_id : IdColumn, model_id : IdColumn, region_id : IdColumn,
     fuel_id : IdColumn, gearbox_id : IdColumn,
     year_from : NumColumn, year_to : NumColumn,
     price_from : NumColumn, price_to : NumColumn]

\* process_search, lines 28-38: int(search.get(col) or 0)
IntOrZero(col) == IF col = Null \/ col[1] = 0 THEN 0 ELSE col[1]

SearchArgs(row) == [c \in DOMAIN row |-> IntOrZero(row[c])]

\* search_cars, lines 167-183: the parameters always sent and those added only for
\* a truthy filter (for the model: truthy and positive).
BaseParams(a) ==
    [k \in {"indexName", "categories.main.id", "brand.id[0]", "page", "size"} |->
        CASE k = "indexName" -> "auto,order_auto,newauto_search"
          [] k = "categories.main.id" -> 1
          [] k = "brand.id[0]" -> a.brand_id
          [] k = "page" -> 0
          [] k = "size" -> 20]

OptionalParam ==
    [model_id |-> "model.id[0]", year_from |-> "year[0].gte", year_to |-> "year[0].lte",
     price_from |-> "price.USD.gte", price_to |-> "price.USD.lte",
     region_id |-> "state[0]", gearbox_id |-> "gearbox.id[0]", fuel_id |-> "fuel.id[0]"]

IncludedAnyNonZero(a, f) == a[f] # 0

Included(a, f) ==
    IF f = "model_id" THEN a[f] # 0 /\ a[f] > 0 ELSE a[f] # 0

SearchParams(a) ==
    LET opt == { f \in DOMAIN OptionalParam : Included(a, f) }
        base == BaseParams(a)
    IN  [k \in DOMAIN base \cup { OptionalParam[f] : f \in opt } |->
            IF k \in DOMAIN base THEN base[k]
            ELSE a[CHOOSE f \in opt : OptionalParam[f] = k]]

NoRow == [c \in DOMAIN OptionalParam \cup {"brand_id"} |-> Null]

\* process_search converts the columns and search_cars builds the query.
BuildQuery ==
    /\ q_pc = "row"
    /\ q_pc' = "built"
    /\ q_params' = SearchParams(SearchArgs(q_row))
    /\ UNCHANGED <<q_row, notQuery>>

\* --------------------------------------------------------- scheduler actions
\* start_scheduler: the warm-up sleep ends.
WarmUp ==
    /\ sched_pc = "warmup"
    /\ sched_pc' = "ready"
    /\ UNCHANGED <<searches, seen_cars, market, last_cycle, units, sem,
                   called, attempts, unpaced, delivered, notSched>>

\* check_new_cars: the repository returns active rows; one task per row is created
\* and the cycle waits in gather.
FetchSearches ==
    /\ sched_pc = "ready"
    /\ GetActiveSearches(searches) # {}
    /\ units' = [k \in 1..Cardinality(GetActiveSearches(searches)) |->
                    NewUnit(SeqOfRows(GetActiveSearches(searches))[k])]
    /\ sem' = MAX_CONCURRENCY
    /\ sched_pc' = "gather"
    /\ UNCHANGED <<searches, seen_cars, market, last_cycle, called, attempts, unpaced,
                   delivered, notSched>>

\* check_new_cars: no active rows, the call returns at once.
FetchNone ==
    /\ sched_pc = "ready"
    /\ GetActiveSearches(searches) = {}
    /\ sched_pc' = "sleep"
    /\ last_cycle' = "idle"
    /\ UNCHANGED <<searches, seen_cars, market, units, sem, called, attempts, unpaced,
                   delivered, notSched>>

\* check_new_cars raises (pool.acquire or the SELECT fails); start_scheduler catches.
FetchFail ==
    /\ sched_pc = "ready"
    /\ sched_pc' = OnCycleError
    /\ last_cycle' = "error"
    /\ UNCHANGED <<searches, seen_cars, market, units, sem, called, attempts, unpaced,
                   delivered, notSched>>

\* `await asyncio.gather(*tasks)` (line 135) is over when every task has finished.
GatherOverAtFirst(tasks) == \E u \in DOMAIN tasks : tasks[u].pc = "done"

GatherOver(tasks) == \A u \in DOMAIN tasks : tasks[u].pc = "done"

\* asyncio.gather returns: every task has finished.
GatherDone ==
    /\ sched_pc = "gather"
    /\ GatherOver(units)
    /\ sched_pc' = IF CycleResult(units) = "ok" THEN "sleep" ELSE OnCycleError
    /\ last_cycle' = CycleResult(units)
    /\ units' = <<>>
    /\ unpaced' = {}
    /\ UNCHANGED <<searches, seen_cars, market, sem, called, attempts, delivered,
                   notSched>>

\* start_scheduler: the 600 s sleep ends, the loop calls check_new_cars again.
Wake ==
    /\ sched_pc = "sleep"
    /\ sched_pc' = "ready"
    /\ UNCHANGED <<searches, seen_cars, market, last_cycle, units, sem,
                   called, attempts, unpaced, delivered, notSched>>

\* -------------------------------------------------------------- unit actions
\* process_search: the unit takes a permit and calls scraper.search_cars. The tasks
\* reach the semaphore in the order check_new_cars created them, and
\* asyncio.Semaphore hands permits to its waiters first come, first served.
AcquirePermit(u) ==
    /\ units[u].pc = "wait"
    /\ \A v \in DOMAIN units : v < u => units[v].pc # "wait"
    /\ SemCanAcquire(sem)
    /\ sem' = sem - 1
    /\ units' = [units EXCEPT ![u].pc = "searching"]
    /\ UNCHANGED <<searches, seen_cars, market, sched_pc, last_cycle,
                   called, attempts, unpaced, delivered, notSched>>

\* search_cars raises: logged, the permit is released, the unit returns.
SearchRaise(u) ==
    /\ units[u].pc = "searching"
    /\ sem' = SemRelease(sem)
    /\ units' = [units EXCEPT ![u] = Finish(@, SearchErrorOutcome)]
    /\ UNCHANGED <<searches, seen_cars, market, sched_pc, last_cycle,
                   called, attempts, unpaced, delivered, notSched>>

\* search_cars returns a page: the permit is released, the safety filter runs, and
\* the unit either returns (nothing left) or enters the seen-check loop.
SearchReturn(u, page) ==
    /\ units[u].pc = "searching"
    /\ sem' = SemRelease(sem)
    /\ LET cars == SafetyFilter(units[u].search.model_name, page)
       IN  units' = [units EXCEPT ![u] =
                IF cars = <<>>
                THEN Finish(@, "returned")
                ELSE [@ EXCEPT !.pc = "check", !.found = page, !.cars = cars, !.i = 1]]
    /\ UNCHANGED <<searches, seen_cars, market, sched_pc, last_cycle,
                   called, attempts, unpaced, delivered, notSched>>

\* repo.is_car_seen returns for the listing at the unit's index.
CheckSeen(u) ==
    /\ units[u].pc = "check"
    /\ LET unit == units[u]
           r == IsCarSeen(seen_cars, unit.search.user_id, unit.cars[unit.i].id)
       IN  /\ seen_cars' = r.table
           /\ called' = called \cup {PairOf(unit)}
           /\ units' = [units EXCEPT ![u] =
                IF r.seen THEN Advance(unit)
                ELSE [unit EXCEPT !.pc = "send", !.marked = @ \cup {unit.cars[unit.i].id}]]
    /\ UNCHANGED <<searches, market, sched_pc, last_cycle, sem, attempts, unpaced, delivered,
                   notSched>>

\* pool.acquire or repo.is_car_seen raises: the outer except logs, the unit returns.
CheckRaise(u) ==
    /\ units[u].pc = "check"
    /\ units' = [units EXCEPT ![u] = Finish(@, "returned")]
    /\ UNCHANGED <<searches, seen_cars, market, sched_pc, last_cycle, sem,
                   called, attempts, unpaced, delivered, notSched>>

\* bot.send_photo / bot.send_message succeeds; the unit goes on to the pacing sleep.
SendOk(u) ==
    /\ units[u].pc = "send"
    /\ attempts' = [attempts EXCEPT ![PairOf(units[u])] = @ + 1]
    /\ unpaced' = unpaced \cup {u}
    /\ delivered' = delivered \cup {PairOf(units[u])}
    /\ units' = [units EXCEPT ![u].pc = "pace"]
    /\ UNCHANGED <<searches, seen_cars, market, sched_pc, last_cycle, sem, called,
                   notSched>>

\* The send raises: logged by the inner except, which skips the pacing sleep.
SendFail(u) ==
    /\ units[u].pc = "send"
    /\ attempts' = [attempts EXCEPT ![PairOf(units[u])] = @ + 1]
    /\ unpaced' = unpaced \cup {u}
    /\ units' = [units EXCEPT ![u] = OnSendError(@)]
    /\ UNCHANGED <<searches, seen_cars, market, sched_pc, last_cycle, sem,
                   called, delivered, notSched>>

\* asyncio.sleep(0.5) ends.
Pace(u) ==
    /\ units[u].pc = "pace"
    /\ units' = [units EXCEPT ![u] = Advance(@)]
    /\ unpaced' = unpaced \ {u}
    /\ UNCHANGED <<searches, seen_cars, market, sched_pc, last_cycle, sem,
                   called, attempts, delivered, notSched>>

\* -------------------------------------------------------------- user actions
\* del_sub: "/del_<id>" from a user.
DelSub(sid, uid) ==
    /\ searches' = DeleteSearch(searches, sid, uid)
    /\ searches' # searches
    /\ UNCHANGED <<seen_cars, market, sched_pc, last_cycle, units, sem,
                   called, attempts, unpaced, delivered, notSched>>

\* ----------------------------------------------------------------- JSON
\* What json.loads returns, tagged by Python type; a dict keeps its key/value pairs
\* in document order, as Python dicts do. Strings are sequences of code points.
JNull == [t |-> "null"]
JInt(n) == [t |-> "int", v |-> n]
JStr(s) == [t |-> "str", v |-> s]
JList(xs) == [t |-> "list", v |-> xs]
JDict(kv) == [t |-> "dict", v |-> kv]

\* The keys the scraper reads, and some it does not.
K_id == <<105, 100>>
K_price == <<112, 114, 105, 99, 101>>
K_USD == <<85, 83, 68>>
K_title == <<116, 105, 116, 108, 101>>
K_basicInfo == <<98, 97, 115, 105, 99, 73, 110, 102, 111>>
K_content == <<99, 111, 110, 116, 101, 110, 116>>
K_name == <<110, 97, 109, 101>>
K_icon == <<105, 99, 111, 110>>
K_data == <<100, 97, 116, 97>>
K_items == <<105, 116, 101, 109, 115>>
K_search == <<115, 101, 97, 114, 99, 104>>
K_related == <<114, 101, 108, 97, 116, 101, 100>>
K_currency == <<99, 117, 114, 114, 101, 110, 99, 121>>
K_link == <<108, 105, 110, 107>>
K_photos == <<112, 104, 111, 116, 111, 115>>
K_photoData == <<112, 104, 111, 116, 111, 68, 97, 116, 97>>
K_seo == <<115, 101, 111>>
K_src == <<115, 114, 99>>
K_formats == <<102, 111, 114, 109, 97, 116, 115>>
K_middle == <<109, 105, 100, 100, 108, 101>>

\* The string literals of scraper.py: "USD", "Auto", "location", "automat",
\* "transmission", "fuel", "speedometer", "тис. км" and the placeholder dash "—".
T_USD == <<85, 83, 68>>
T_Auto == <<65, 117, 116, 111>>
T_location == <<108, 111, 99, 97, 116, 105, 111, 110>>
T_automat == <<97, 117, 116, 111, 109, 97, 116>>
T_transmission == <<116, 114, 97, 110, 115, 109, 105, 115, 115, 105, 111, 110>>
T_fuel == <<102, 117, 101, 108>>
T_speedometer == <<115, 112, 101, 101, 100, 111, 109, 101, 116, 101, 114>>
T_tys_km == <<1090, 1080, 1089, 46, 32, 1082, 1084>>
T_dash == <<8212>>
\* "http", "https://auto.ria.com", "https://auto.ria.com/uk/auto_" and ".html".
T_http == <<104, 116, 116, 112>>
T_site == <<104, 116, 116, 112, 115, 58, 47, 47, 97, 117, 116, 111, 46, 114, 105, 97, 46, 99, 111, 109>>
T_auto_prefix == <<104, 116, 116, 112, 115, 58, 47, 47, 97, 117, 116, 111, 46, 114, 105, 97, 46, 99, 111, 109, 47, 117, 107, 47, 97, 117, 116, 111, 95>>
T_html == <<46, 104, 116, 109, 108>>

\* Python truthiness of a JSON value.
Falsy(x) ==
    \/ x.t = "null"
    \/ x.t = "int" /\ x.v = 0
    \/ x.t \in {"str", "list", "dict"} /\ x.v = <<>>

\* `k in d` and d.get(k, default) on a dict.
HasKey(d, k) == \E i \in DOMAIN d.v : d.v[i][1] = k
GetOr(d, k, default) ==
    IF HasKey(d, k) THEN d.v[CHOOSE i \in DOMAIN d.v : d.v[i][1] = k][2] ELSE default
Get(d, k) == GetOr(d, k, JNull)

\* `"USD" in str(x)`: str of a dict or list spells out every key and every string
\* inside it; the digits of a number and the word None hold no "USD".
RECURSIVE StrHasUSD(_)
StrHasUSD(x) ==
    CASE x.t = "str" -> Contains(T_USD, x.v)
      [] x.t = "list" -> \E i \in DOMAIN x.v : StrHasUSD(x.v[i])
      [] x.t = "dict" -> \E i \in DOMAIN x.v :
                             Contains(T_USD, x.v[i][1]) \/ StrHasUSD(x.v[i][2])
      [] OTHER -> FALSE

\* str.strip() for the blanks that occur in the page texts.
IsBlank(c) == c \in {32, 9, 10, 13, 160}
RECURSIVE LStrip(_)
LStrip(s) == IF s # <<>> /\ IsBlank(Head(s)) THEN LStrip(Tail(s)) ELSE s
RECURSIVE RStrip(_)
RStrip(s) ==
    IF s # <<>> /\ IsBlank(s[Len(s)]) THEN RStrip(SubSeq(s, 1, Len(s) - 1)) ELSE s
Strip(s) == RStrip(LStrip(s))

IsDigit(c) == c >= 48 /\ c <= 57

\* The value of a run of decimal digits.
RECURSIVE DigitsValue(_)
DigitsValue(s) ==
    IF s = <<>> THEN 0 ELSE 10 * DigitsValue(SubSeq(s, 1, Len(s) - 1)) + (s[Len(s)] - 48)

\* int(x): [ok |-> FALSE] stands for the ValueError or TypeError it raises.
IntOf(x) ==
    CASE x.t = "int" -> [ok |-> TRUE, v |-> x.v]
      [] x.t = "str" ->
            LET s == Strip(x.v)
                neg == s # <<>> /\ s[1] = 45
                body == IF s # <<>> /\ s[1] \in {43, 45} THEN Tail(s) ELSE s
            IN  IF body # <<>> /\ \A i \in DOMAIN body : IsDigit(body[i])
                THEN [ok |-> TRUE, v |-> IF neg THEN 0 - DigitsValue(body) ELSE DigitsValue(body)]
                ELSE [ok |-> FALSE, v |-> 0]
      [] OTHER -> [ok |-> FALSE, v |-> 0]

\* ------------------------------------------------------------- the extractor
\* A search page as the extractor's two regular expressions see it: the script
\* assignments `window.__X__ = {...}` in page order, each with the text captured
\* as its object literal, which json.loads either rejects or parses to a value.
Assignment(marker, valid, value) == [marker |-> marker, valid |-> valid, value |-> value]

\* re.search: the leftmost assignment to the marker, 0 for no match.
SearchMarker(marker, html) ==
    IF \E i \in DOMAIN html : html[i].marker = marker
    THEN CHOOSE i \in DOMAIN html :
            /\ html[i].marker = marker
            /\ \A j \in 1..(i - 1) : html[j].marker # marker
    ELSE 0

PiniaStateSkipped(html) == JNull

\* Lines 220-229: json_data after the PINIA attempt (None when there is no match or
\* the literal does not decode).
PiniaState(html) ==
    LET m == SearchMarker("PINIA", html)
    IN  IF m # 0 /\ html[m].valid THEN html[m].value ELSE JNull

LegacyStateIgnored(html, json_data) == json_data

\* Lines 231-238: the NUXT attempt, made only when json_data is falsy.
LegacyState(html, json_data) ==
    IF Falsy(json_data)
    THEN LET m == SearchMarker("NUXT", html)
         IN  IF m # 0 /\ html[m].valid THEN html[m].value ELSE json_data
    ELSE json_data

StateOf(html) == LegacyState(html, PiniaState(html))

\* Lines 250-251: the heuristic that takes a dict for a car advertisement.
LooksLikeAd(obj) ==
    /\ HasKey(obj, K_id)
    /\ HasKey(obj, K_price)
    /\ StrHasUSD(Get(obj, K_price))
    /\ (HasKey(obj, K_basicInfo) \/ HasKey(obj, K_title))

\* Lines 247-258: depth first, in document order; an advertisement is appended and
\* not searched any deeper.
RECURSIVE collect(_), collectEach(_)
collect(obj) ==
    CASE obj.t = "dict" ->
            IF LooksLikeAd(obj) THEN <<obj>>
            ELSE collectEach([i \in DOMAIN obj.v |-> obj.v[i][2]])
      [] obj.t = "list" -> collectEach(obj.v)
      [] OTHER -> <<>>

collectEach(xs) ==
    IF xs = <<>> THEN <<>> ELSE collect(Head(xs)) \o collectEach(Tail(xs))

\* The decimal digits of a natural number, and str() of the scalars the page
\* carries in text positions (str of None is "None").
RECURSIVE DecimalOf(_)
DecimalOf(n) ==
    IF n < 10 THEN <<48 + n>> ELSE DecimalOf(n \div 10) \o <<48 + (n % 10)>>

StrOf(x) ==
    CASE x.t = "str" -> x.v
      [] x.t = "int" -> IF x.v < 0 THEN <<45>> \o DecimalOf(0 - x.v) ELSE DecimalOf(x.v)
      [] x.t = "null" -> <<78, 111, 110, 101>>

\* Lines 269-274: the price in US dollars; ok is FALSE when int() raises.
PriceOf(d) ==
    LET price_obj == Get(d, K_price)
    IN  CASE price_obj.t = "dict" ->
                LET usd == GetOr(price_obj, K_USD, JInt(0))
                IN  IntOf(IF Falsy(usd) THEN JInt(0) ELSE usd)
          [] price_obj.t = "int" -> [ok |-> TRUE, v |-> price_obj.v]
          [] OTHER -> [ok |-> TRUE, v |-> 0]

\* Lines 279-284 and 322.
TitleOfAd(d) ==
    LET title_obj == Get(d, K_title)
        content == IF title_obj.t = "dict" THEN Get(title_obj, K_content) ELSE JNull
        name == IF title_obj.t = "dict" THEN Get(title_obj, K_name) ELSE JNull
    IN  CASE title_obj.t = "dict" ->
                StrOf(IF ~Falsy(content) THEN content
                      ELSE IF ~Falsy(name) THEN name ELSE JStr(T_Auto))
          [] title_obj.t = "str" -> title_obj.v
          [] OTHER -> T_Auto

\* txt.replace(" ", "") and re.search(r"(\d+)", ...): the first run of digits.
RemoveSpaces(s) == SelectSeq(s, LAMBDA c : c # 32)
RECURSIVE TakeDigits(_)
TakeDigits(s) ==
    IF s # <<>> /\ IsDigit(Head(s)) THEN <<Head(s)>> \o TakeDigits(Tail(s)) ELSE <<>>
RECURSIVE FirstDigits(_)
FirstDigits(s) ==
    IF s = <<>> THEN <<>>
    ELSE IF IsDigit(Head(s)) THEN TakeDigits(s) ELSE FirstDigits(Tail(s))

NoBasicInfo == [ok |-> TRUE, mileage |-> 0, location |-> <<>>, gearbox |-> <<>>, fuel |-> <<>>]

\* Lines 309-318, one entry of basicInfo: info.get raises on anything but a dict,
\* and so does (info.get("icon") or {}).get on a truthy icon that is not a dict.
ReadInfo(acc, info) ==
    IF info.t # "dict" THEN [acc EXCEPT !.ok = FALSE]
    ELSE LET content == Get(info, K_content)
             icon_obj == Get(info, K_icon)
         IN  IF ~Falsy(icon_obj) /\ icon_obj.t # "dict" THEN [acc EXCEPT !.ok = FALSE]
             ELSE LET txt == Strip(StrOf(IF Falsy(content) THEN JStr(<<>>) ELSE content))
                      data == IF Falsy(icon_obj) THEN JNull ELSE Get(icon_obj, K_data)
                      icon == StrOf(IF Falsy(data) THEN JStr(<<>>) ELSE data)
                      m == FirstDigits(RemoveSpaces(txt))
                  IN  IF Contains(T_speedometer, icon) \/ Contains(T_tys_km, txt)
                      THEN IF m # <<>> THEN [acc EXCEPT !.mileage = DigitsValue(m)] ELSE acc
                      ELSE IF Contains(T_location, icon) THEN [acc EXCEPT !.location = txt]
                      ELSE IF Contains(T_automat, icon) \/ Contains(T_transmission, icon)
                           THEN [acc EXCEPT !.gearbox = txt]
                      ELSE IF Contains(T_fuel, icon) THEN [acc EXCEPT !.fuel = txt]
                      ELSE acc

RECURSIVE ReadInfos(_, _)
ReadInfos(acc, infos) ==
    IF infos = <<>> \/ ~acc.ok THEN acc
    ELSE ReadInfos(ReadInfo(acc, Head(infos)), Tail(infos))

\* Lines 307-318.
BasicInfoOf(d) ==
    LET infos == GetOr(d, K_basicInfo, JList(<<>>))
    IN  IF infos.t = "list" THEN ReadInfos(NoBasicInfo, infos.v) ELSE NoBasicInfo

\* str.startswith
StartsWith(s, prefix) == Len(s) >= Len(prefix) /\ SubSeq(s, 1, Len(prefix)) = prefix

\* Lines 287-289: the link of the advertisement, or the one made from its id, made
\* absolute; ok is FALSE when the link is no string and startswith raises.
LinkOf(d) ==
    LET given == GetOr(d, K_link, JStr(<<>>))
        link == IF Falsy(given) THEN JStr(T_auto_prefix \o StrOf(Get(d, K_id)) \o T_html)
                ELSE given
    IN  IF link.t # "str" THEN [ok |-> FALSE, v |-> <<>>]
        ELSE [ok |-> TRUE, v |-> IF StartsWith(link.v, T_http) THEN link.v ELSE T_site \o link.v]

\* `a or b` on JSON values.
Or(a, b) == IF Falsy(a) THEN b ELSE a

\* Lines 292-299: the first photo; ok is FALSE when .get is called on something
\* that is no dict.
ImageOf(d) ==
    LET photoData == GetOr(d, K_photoData, JDict(<<>>))
        direct == GetOr(d, K_photos, JList(<<>>))
        photos == IF Falsy(direct) /\ photoData.t = "dict"
                  THEN GetOr(photoData, K_seo, JList(<<>>)) ELSE direct
        first == photos.v[1]
        formats == GetOr(first, K_formats, JDict(<<>>))
    IN  IF Falsy(direct) /\ photoData.t # "dict" THEN [ok |-> FALSE, v |-> JStr(<<>>)]
        ELSE IF Falsy(photos) \/ photos.t # "list" THEN [ok |-> TRUE, v |-> JStr(<<>>)]
        ELSE IF first.t = "str" THEN [ok |-> TRUE, v |-> first]
        ELSE IF first.t # "dict" THEN [ok |-> TRUE, v |-> JStr(<<>>)]
        ELSE IF ~Falsy(Get(first, K_src)) THEN [ok |-> TRUE, v |-> Get(first, K_src)]
        ELSE IF formats.t # "dict" THEN [ok |-> FALSE, v |-> JStr(<<>>)]
        ELSE [ok |-> TRUE, v |-> GetOr(formats, K_middle, JStr(<<>>))]

\* scraper.py CarDTO, lines 14-25.
CarRecord(id, title, price_usd, url, image_url, info) ==
    [id |-> id, title |-> title, price_usd |-> price_usd, url |-> url,
     mileage |-> info.mileage, image_url |-> image_url,
     location |-> info.location, gearbox |-> info.gearbox, fuel |-> info.fuel]

\* Lines 264-332, the loop body for one found object: the listing it appends, or
\* ok = FALSE when the body leaves by `continue` (no id, no price, or an exception).
Convert(d) ==
    LET car_id == Get(d, K_id)
        price == PriceOf(d)
        info == BasicInfoOf(d)
        id == IntOf(car_id)
        skip == [ok |-> FALSE, car |-> CarRecord(0, <<>>, 0, <<>>, <<>>, NoBasicInfo)]
    IN  IF Falsy(car_id) THEN skip
        ELSE IF ~price.ok \/ price.v = 0 THEN skip
        ELSE IF ~LinkOf(d).ok \/ ~ImageOf(d).ok \/ ~info.ok \/ ~id.ok THEN skip
        ELSE [ok |-> TRUE,
              car |-> CarRecord(id.v, TitleOfAd(d), price.v, LinkOf(d).v,
                                StrOf(ImageOf(d).v), info)]

\* Lines 262-332: the listings appended for the found objects, in order.
RECURSIVE ConvertAll(_)
ConvertAll(found) ==
    IF found = <<>> THEN <<>>
    ELSE (IF Convert(Head(found)).ok THEN <<Convert(Head(found)).car>> ELSE <<>>)
            \o ConvertAll(Tail(found))

\* The positions of a set of indices in ascending order.
Ascending(S) ==
    [k \in 1..Cardinality(S) |-> CHOOSE i \in S : Cardinality({ j \in S : j < i }) = k - 1]

FirstOf(results, i) == \A j \in 1..(i - 1) : results[j].id # results[i].id
LastOf(results, i) ==
    CHOOSE j \in DOMAIN results :
        /\ results[j].id = results[i].id
        /\ \A k \in (j + 1)..Len(results) : results[k].id # results[i].id

DedupeFirstWins(results) ==
    LET firsts == Ascending({ i \in DOMAIN results : FirstOf(results, i) })
    IN  [k \in DOMAIN firsts |-> results[firsts[k]]]

\* Lines 335-336: {c.id: c for c in results} keeps a key where it was first
\* inserted and the value last assigned to it.
Dedupe(results) ==
    LET firsts == Ascending({ i \in DOMAIN results : FirstOf(results, i) })
    IN  [k \in DOMAIN firsts |-> results[LastOf(results, firsts[k])]]

\* Lines 240-242 and 260-336.
ExtractCars(html) ==
    IF Falsy(StateOf(html)) THEN <<>> ELSE Dedupe(ConvertAll(collect(StateOf(html))))

\* ------------------------------------------------------ extractor inputs
\* Objects a page's state can hold: advertisements and near-advertisements.
\* id 7, 5000 USD, a title, a relative link, a photo and all four details
AdFull ==
    JDict(<<<<K_id, JInt(7)>>, <<K_price, JDict(<<<<K_USD, JInt(5000)>>>>)>>, <<K_title, JStr(<<65, 117, 100, 105, 32, 65, 52>>)>>, <<K_link, JStr(<<47, 97, 55, 46, 104, 116, 109, 108>>)>>, <<K_photos, JList(<<JDict(<<<<K_src, JStr(<<104, 116, 116, 112, 58, 47, 47, 99, 100, 110, 47, 55, 46, 106, 112, 103>>)>>>>)>>)>>, <<K_basicInfo, JList(<<JDict(<<<<K_content, JStr(<<75, 121, 105, 118, 32>>)>>, <<K_icon, JDict(<<<<K_data, JStr(<<105, 99, 111, 110, 45, 108, 111, 99, 97, 116, 105, 111, 110>>)>>>>)>>>>), JDict(<<<<K_content, JStr(<<65, 117, 116, 111, 109, 97, 116>>)>>, <<K_icon, JDict(<<<<K_data, JStr(<<105, 99, 111, 110, 45, 97, 117, 116, 111, 109, 97, 116>>)>>>>)>>>>), JDict(<<<<K_content, JStr(<<68, 105, 101, 115, 101, 108>>)>>, <<K_icon, JDict(<<<<K_data, JStr(<<105, 99, 111, 110, 45, 102, 117, 101, 108>>)>>>>)>>>>), JDict(<<<<K_content, JStr(<<49, 50, 48, 32, 1090, 1080, 1089, 46, 32, 1082, 1084>>)>>, <<K_icon, JDict(<<<<K_data, JStr(<<105, 99, 111, 110, 45, 115, 112, 101, 101, 100, 111, 109, 101, 116, 101, 114>>)>>>>)>>>>)>>)>>>>)
\* id 7 again, other values, a photo under photoData, no details
AdSameId ==
    JDict(<<<<K_id, JInt(7)>>, <<K_price, JDict(<<<<K_USD, JInt(4000)>>>>)>>, <<K_title, JDict(<<<<K_content, JStr(<<66, 77, 87, 32, 88, 53>>)>>>>)>>, <<K_photoData, JDict(<<<<K_seo, JList(<<JStr(<<104, 116, 116, 112, 58, 47, 47, 99, 100, 110, 47, 120, 53, 46, 106, 112, 103>>)>>)>>>>)>>>>)
\* id 9, a gearbox only
AdGearOnly ==
    JDict(<<<<K_id, JInt(9)>>, <<K_price, JDict(<<<<K_USD, JInt(2000)>>>>)>>, <<K_title, JStr(<<79, 112, 101, 108>>)>>, <<K_basicInfo, JList(<<JDict(<<<<K_content, JStr(<<77, 97, 110, 117, 97, 108>>)>>, <<K_icon, JDict(<<<<K_data, JStr(<<105, 99, 111, 110, 45, 116, 114, 97, 110, 115, 109, 105, 115, 115, 105, 111, 110>>)>>>>)>>>>)>>)>>>>)
\* id "7" and price "4500" as strings, a title by name
AdStringId ==
    JDict(<<<<K_id, JStr(<<55>>)>>, <<K_price, JDict(<<<<K_USD, JStr(<<52, 53, 48, 48>>)>>>>)>>, <<K_title, JDict(<<<<K_name, JStr(<<75, 105, 97>>)>>>>)>>>>)
\* id 8, location and mileage only, no title
AdNoTitle ==
    JDict(<<<<K_id, JInt(8)>>, <<K_price, JDict(<<<<K_USD, JInt(3000)>>>>)>>, <<K_basicInfo, JList(<<JDict(<<<<K_content, JStr(<<76, 118, 105, 118>>)>>, <<K_icon, JDict(<<<<K_data, JStr(<<105, 99, 111, 110, 45, 108, 111, 99, 97, 116, 105, 111, 110>>)>>>>)>>>>), JDict(<<<<K_content, JStr(<<57, 53, 32, 1090, 1080, 1089, 46, 32, 1082, 1084>>)>>, <<K_icon, JDict(<<<<K_data, JStr(<<>>)>>>>)>>>>)>>)>>>>)
\* id 0
AdIdZero ==
    JDict(<<<<K_id, JInt(0)>>, <<K_price, JDict(<<<<K_USD, JInt(5000)>>>>)>>, <<K_title, JStr(<<90, 101, 114, 111>>)>>>>)
\* id null
AdIdNull ==
    JDict(<<<<K_id, JNull>>, <<K_price, JDict(<<<<K_USD, JInt(5000)>>>>)>>, <<K_title, JStr(<<78, 117, 108, 108>>)>>>>)
\* id "0", a string
AdIdStringZero ==
    JDict(<<<<K_id, JStr(<<48>>)>>, <<K_price, JDict(<<<<K_USD, JInt(5000)>>>>)>>, <<K_title, JStr(<<90, 101, 114, 111>>)>>>>)
\* an id that is no number
AdIdText ==
    JDict(<<<<K_id, JStr(<<120, 55>>)>>, <<K_price, JDict(<<<<K_USD, JInt(5000)>>>>)>>, <<K_title, JStr(<<84, 101, 120, 116>>)>>>>)
\* id 7 again, price 0
AdPriceZero ==
    JDict(<<<<K_id, JInt(7)>>, <<K_price, JDict(<<<<K_USD, JInt(0)>>>>)>>, <<K_title, JStr(<<70, 114, 101, 101>>)>>>>)
\* a price without a USD amount
AdNoUSD ==
    JDict(<<<<K_id, JInt(9)>>, <<K_price, JDict(<<<<K_currency, JStr(<<85, 83, 68>>)>>>>)>>, <<K_title, JStr(<<65, 115, 107>>)>>>>)
\* price "0", a string
AdPriceStringZero ==
    JDict(<<<<K_id, JInt(9)>>, <<K_price, JDict(<<<<K_USD, JStr(<<48>>)>>>>)>>, <<K_title, JStr(<<70, 114, 101, 101>>)>>>>)
\* a price int() rejects
AdPriceText ==
    JDict(<<<<K_id, JInt(9)>>, <<K_price, JDict(<<<<K_USD, JStr(<<52, 32, 53, 48, 48>>)>>>>)>>, <<K_title, JStr(<<71, 97, 112>>)>>>>)
\* a bare numeric price
AdBarePrice ==
    JDict(<<<<K_id, JInt(9)>>, <<K_price, JInt(5000)>>, <<K_title, JStr(<<66, 97, 114, 101>>)>>>>)
\* no id key
AdNoId ==
    JDict(<<<<K_price, JDict(<<<<K_USD, JInt(5000)>>>>)>>, <<K_title, JStr(<<65, 110, 111, 110>>)>>>>)
\* neither title nor basicInfo
AdNoTitleNoInfo ==
    JDict(<<<<K_id, JInt(9)>>, <<K_price, JDict(<<<<K_USD, JInt(5000)>>>>)>>>>)

AdObjects ==
    {AdFull,
     AdSameId,
     AdGearOnly,
     AdStringId,
     AdNoTitle,
     AdIdZero,
     AdIdNull,
     AdIdStringZero,
     AdIdText,
     AdPriceZero,
     AdNoUSD,
     AdPriceStringZero,
     AdPriceText,
     AdBarePrice,
     AdNoId,
     AdNoTitleNoInfo}

\* Sequences of at most n objects.
AdSeqs(n) == UNION { [1..k -> AdObjects] : k \in 0..n }

\* Where a state object keeps its advertisements: in a list two dicts down; in a
\* dict that has an id and a price but neither title nor basicInfo, so that it is
\* searched through; as the values of a dict; inside an advertisement, where the
\* search does not go.
FlatState(ads) == JDict(<< <<K_search, JDict(<< <<K_items, JList(ads)>> >>)>> >>)
WrappedState(ads) ==
    JDict(<< <<K_search, JDict(<< <<K_id, JInt(1)>>, <<K_price, JDict(<< <<K_USD, JInt(1)>> >>)>>,
                                 <<K_items, JList(ads)>> >>)>> >>)
KeyedState(ads) == JDict([i \in DOMAIN ads |-> <<DecimalOf(i), ads[i]>>])
NestedState(ads) ==
    JDict(<< <<K_items, JList(<< JDict(AdFull.v \o << <<K_related, JList(ads)>> >>) >>)>> >>)

\* Pages that embed a state object under the current marker only, under the legacy
\* marker only, or under neither.
PiniaOnly(state) == << Assignment("PINIA", TRUE, state) >>
NuxtOnly(state) == << Assignment("NUXT", TRUE, state) >>
NoMarker(state) == << Assignment("OTHER", TRUE, state) >>
\* Pages with both markers: the current one cut short, empty, or complete.
PiniaBroken(state) == << Assignment("PINIA", FALSE, state), Assignment("NUXT", TRUE, state) >>
PiniaEmpty(state) == << Assignment("PINIA", TRUE, JDict(<<>>)), Assignment("NUXT", TRUE, state) >>
PiniaFirst(state) == << Assignment("PINIA", TRUE, state), Assignment("NUXT", TRUE, FlatState(<<AdNoTitle>>)) >>
BrokenOnly(state) == << Assignment("NUXT", FALSE, state) >>

\* The pages of the extractor's specification: every sequence of objects in a list
\* under either marker, and the short sequences in every other arrangement.
ExtractorPages ==
    { PiniaOnly(FlatState(ads)) : ads \in AdSeqs(MaxAds) }
        \cup { NuxtOnly(FlatState(ads)) : ads \in AdSeqs(MaxAds) }
        \cup UNION { { PiniaOnly(s), NuxtOnly(s), NoMarker(s), PiniaBroken(s), PiniaEmpty(s),
                       PiniaFirst(s), BrokenOnly(s) } :
                     s \in UNION { { WrappedState(ads), KeyedState(ads), NestedState(ads),
                                     FlatState(ads) } : ads \in AdSeqs(1) } }

\* ------------------------------------------------------------ extractor run
\* _extract_cars_from_pinia, lines 220-242: the state is looked up; without one the
\* call returns the empty list.
FindState ==
    /\ x_pc = "html"
    /\ x_json' = StateOf(x_html)
    /\ IF Falsy(StateOf(x_html))
       THEN x_pc' = "done" /\ x_out' = <<>>
       ELSE x_pc' = "state" /\ x_out' = x_out
    /\ UNCHANGED <<x_html, x_found, x_results, notExtract>>

\* Lines 245-260.
CollectFound ==
    /\ x_pc = "state"
    /\ x_found' = collect(x_json)
    /\ x_pc' = "found"
    /\ UNCHANGED <<x_html, x_json, x_results, x_out, notExtract>>

\* Lines 262-332.
ConvertFound ==
    /\ x_pc = "found"
    /\ x_results' = ConvertAll(x_found)
    /\ x_pc' = "results"
    /\ UNCHANGED <<x_html, x_json, x_found, x_out, notExtract>>

\* Lines 334-336.
ReturnUnique ==
    /\ x_pc = "results"
    /\ x_out' = Dedupe(x_results)
    /\ x_pc' = "done"
    /\ UNCHANGED <<x_html, x_json, x_found, x_results, notExtract>>

InitIdleExtract ==
    /\ x_pc = "idle"
    /\ x_html = <<>>
    /\ x_json = JNull
    /\ x_found = <<>>
    /\ x_results = <<>>
    /\ x_out = <<>>

\* ------------------------------------------------------------- the enricher
\* What _fetch_final_page returns when it returns a dict (lines 407-410): title and
\* image_url are strings, possibly empty; mileage_th is None (<<>>) or a number;
\* fuel, gearbox and location are None or strings.
Details(title, image_url, mileage_th, location, gearbox, fuel) ==
    [title |-> title, image_url |-> image_url, mileage_th |-> mileage_th,
     location |-> location, gearbox |-> gearbox, fuel |-> fuel]

\* A detail page with every field, one with none, one with a zero mileage, a
\* location, an empty gearbox and no fuel.
DetailResults ==
    { Details(<<68, 101, 116, 97, 105, 108>>, <<104, 116, 116, 112, 58, 47, 47, 99, 100, 110, 47, 100, 46, 106, 112, 103>>, <<88>>, <<79, 100, 101, 115, 97>>, <<77, 97, 110, 117, 97, 108>>, <<71, 97, 115>>),
      Details(<<>>, <<>>, <<>>, None, None, None),
      Details(<<>>, <<>>, <<0>>, <<68, 110, 105, 112, 114, 111>>, <<>>, None) }

CompleteNever(car) == FALSE

\* Line 346: nothing is missing, no detail fetch is needed.
Complete(car) ==
    car.location # <<>> /\ car.gearbox # <<>> /\ car.fuel # <<>> /\ car.mileage # 0

MergeOverwriting(car, details) ==
    [car EXCEPT
        !.title = IF Truthy(details.title) THEN details.title ELSE @,
        !.image_url = IF Truthy(details.image_url) THEN details.image_url ELSE @,
        !.mileage = IF details.mileage_th # <<>> /\ details.mileage_th # <<0>>
                    THEN details.mileage_th[1] ELSE @,
        !.location = IF Truthy(details.location) THEN details.location ELSE @,
        !.gearbox = IF Truthy(details.gearbox) THEN details.gearbox ELSE @,
        !.fuel = IF Truthy(details.fuel) THEN details.fuel ELSE @]

\* Lines 355-360: the fields that are empty or zero are filled from the details
\* that are there.
Merge(car, details) ==
    [car EXCEPT
        !.title = IF @ = <<>> /\ Truthy(details.title) THEN details.title ELSE @,
        !.image_url = IF @ = <<>> /\ Truthy(details.image_url) THEN details.image_url ELSE @,
        !.mileage = IF @ = 0 /\ details.mileage_th # <<>> /\ details.mileage_th # <<0>>
                    THEN details.mileage_th[1] ELSE @,
        !.location = IF @ = <<>> /\ Truthy(details.location) THEN details.location ELSE @,
        !.gearbox = IF @ = <<>> /\ Truthy(details.gearbox) THEN details.gearbox ELSE @,
        !.fuel = IF @ = <<>> /\ Truthy(details.fuel) THEN details.fuel ELSE @]

GatherAsCompleted(tasks, order) == [k \in DOMAIN order |-> tasks[order[k]].car]

\* Line 366: asyncio.gather returns the results in the order of its arguments.
Gather(tasks, order) == [k \in DOMAIN tasks |-> tasks[k].car]

SetDefaultsSkipped(cars) == cars

\* Lines 369-372.
SetDefaults(cars) ==
    [k \in DOMAIN cars |->
        [cars[k] EXCEPT !.location = IF @ = <<>> THEN T_dash ELSE @,
                        !.gearbox = IF @ = <<>> THEN T_dash ELSE @,
                        !.fuel = IF @ = <<>> THEN T_dash ELSE @]]

ScrapeErrorPropagates == "raised"

\* Lines 208-210: an exception of the request, the extraction or the enrichment is
\* logged and the call returns the empty list.
ScrapeErrorExit == "error"

\* ------------------------------------------------------------- search_cars
\* The pages the marketplace answers a search with: a state with at most
\* MaxListings objects, or no state at all.
SearchAds == {AdFull, AdNoTitle, AdGearOnly, AdIdZero}
SearchPages ==
    { PiniaOnly(FlatState(ads)) : ads \in UNION { [1..k -> SearchAds] : k \in 0..MaxListings } }
        \cup { NoMarker(FlatState(<<AdFull>>)) }

\* Statuses other than 200 the marketplace answers with.
ErrorStatuses == {403, 500}

\* Lines 192-195: the page request is answered with a status that is not 200.
PageStatus(status) ==
    /\ s_pc = "request"
    /\ s_status' = status
    /\ s_pc' = "done"
    /\ s_exit' = "status"
    /\ s_result' = <<>>
    /\ UNCHANGED <<s_html, e_tasks, e_sem, e_order, e_fetched, notScrape>>

\* Lines 192-196: the page request is answered with status 200 and a body.
PageLoaded(html) ==
    /\ s_pc = "request"
    /\ s_status' = 200
    /\ s_html' = html
    /\ s_pc' = "page"
    /\ UNCHANGED <<s_exit, s_result, e_tasks, e_sem, e_order, e_fetched, notScrape>>

\* Lines 186-210: an exception leaves the request, the extraction or the
\* enrichment; the except clause of search_cars takes it.
ScrapeRaise ==
    /\ s_pc \in {"request", "page", "enrich"}
    /\ s_pc' = "done"
    /\ s_exit' = ScrapeErrorExit
    /\ s_result' = <<>>
    /\ UNCHANGED <<s_status, s_html, e_tasks, e_sem, e_order, e_fetched, notScrape>>

\* Lines 198-205 and 343-366: the page is extracted; without a listing the call
\* returns, otherwise one enrich_one task per listing is handed to gather.
ExtractPage ==
    /\ s_pc = "page"
    /\ LET cars == ExtractCars(s_html)
       IN  IF cars = <<>>
           THEN /\ s_pc' = "done"
                /\ s_exit' = "empty"
                /\ s_result' = <<>>
                /\ UNCHANGED <<e_tasks, e_sem>>
           ELSE /\ s_pc' = "enrich"
                /\ e_tasks' = [k \in DOMAIN cars |-> [car |-> cars[k], pc |-> "start", how |-> "pending"]]
                /\ e_sem' = DetailsConcurrency
                /\ UNCHANGED <<s_exit, s_result>>
    /\ UNCHANGED <<s_status, s_html, e_order, e_fetched, notScrape>>

\* enrich_one, lines 346-349: the tasks start in the order gather was given them; a
\* complete listing is returned at once, any other goes for the semaphore.
EnrichStart(k) ==
    /\ s_pc = "enrich"
    /\ e_tasks[k].pc = "start"
    /\ \A j \in 1..(k - 1) : e_tasks[j].pc # "start"
    /\ IF Complete(e_tasks[k].car)
       THEN /\ e_tasks' = [e_tasks EXCEPT ![k].pc = "done", ![k].how = "complete"]
            /\ e_order' = Append(e_order, k)
       ELSE /\ e_tasks' = [e_tasks EXCEPT ![k].pc = "wait"]
            /\ e_order' = e_order
    /\ UNCHANGED <<s_pc, s_status, s_html, s_exit, s_result, e_sem, e_fetched, notScrape>>

AcquireDetailUngated(k) ==
    /\ s_pc = "enrich"
    /\ e_tasks[k].pc = "wait"
    /\ \A j \in 1..(k - 1) : e_tasks[j].pc # "wait"
    /\ e_sem' = e_sem - 1
    /\ e_tasks' = [e_tasks EXCEPT ![k].pc = "fetching"]
    /\ e_fetched' = e_fetched \cup {k}
    /\ UNCHANGED <<s_pc, s_status, s_html, s_exit, s_result, e_order, notScrape>>

\* Lines 349-351: the task takes a permit, first come first served, and issues its
\* detail fetch.
AcquireDetail(k) ==
    /\ s_pc = "enrich"
    /\ e_tasks[k].pc = "wait"
    /\ \A j \in 1..(k - 1) : e_tasks[j].pc # "wait"
    /\ e_sem > 0
    /\ e_sem' = e_sem - 1
    /\ e_tasks' = [e_tasks EXCEPT ![k].pc = "fetching"]
    /\ e_fetched' = e_fetched \cup {k}
    /\ UNCHANGED <<s_pc, s_status, s_html, s_exit, s_result, e_order, notScrape>>

\* Lines 351-362: _fetch_final_page returns a dict; the empty fields are filled.
DetailReturns(k, details) ==
    /\ s_pc = "enrich"
    /\ e_tasks[k].pc = "fetching"
    /\ e_tasks' = [e_tasks EXCEPT ![k] =
                        [car |-> Merge(@.car, details), pc |-> "done", how |-> "details"]]
    /\ e_sem' = e_sem + 1
    /\ e_order' = Append(e_order, k)
    /\ UNCHANGED <<s_pc, s_status, s_html, s_exit, s_result, e_fetched, notScrape>>

\* Lines 352 and 383-412: _fetch_final_page returns None (a status that is not 200,
\* a timeout, an exception inside it); the listing is returned as it is.
DetailNone(k) ==
    /\ s_pc = "enrich"
    /\ e_tasks[k].pc = "fetching"
    /\ e_tasks' = [e_tasks EXCEPT ![k].pc = "done", ![k].how = "none"]
    /\ e_sem' = e_sem + 1
    /\ e_order' = Append(e_order, k)
    /\ UNCHANGED <<s_pc, s_status, s_html, s_exit, s_result, e_fetched, notScrape>>

DetailRaisesAborts(k) ==
    /\ s_pc = "enrich"
    /\ e_tasks[k].pc = "fetching"
    /\ s_pc' = "done"
    /\ s_exit' = "error"
    /\ s_result' = <<>>
    /\ e_tasks' = [e_tasks EXCEPT ![k].pc = "done", ![k].how = "raised"]
    /\ UNCHANGED <<s_status, s_html, e_sem, e_order, e_fetched, notScrape>>

\* Lines 363-364: the fetch raises into enrich_one; the listing is returned as it is.
DetailRaises(k) ==
    /\ s_pc = "enrich"
    /\ e_tasks[k].pc = "fetching"
    /\ e_tasks' = [e_tasks EXCEPT ![k].pc = "done", ![k].how = "raised"]
    /\ e_sem' = e_sem + 1
    /\ e_order' = Append(e_order, k)
    /\ UNCHANGED <<s_pc, s_status, s_html, s_exit, s_result, e_fetched, notScrape>>

\* Lines 366-374 and 205-206: gather returns, the defaults are set, search_cars
\* returns the list.
GatherEnriched ==
    /\ s_pc = "enrich"
    /\ \A k \in DOMAIN e_tasks : e_tasks[k].pc = "done"
    /\ s_result' = SetDefaults(Gather(e_tasks, e_order))
    /\ s_exit' = "enriched"
    /\ s_pc' = "done"
    /\ UNCHANGED <<s_status, s_html, e_tasks, e_sem, e_order, e_fetched, notScrape>>

InitIdleScrape ==
    /\ s_pc = "idle"
    /\ s_status = 0
    /\ s_html = <<>>
    /\ s_exit = "none"
    /\ s_result = <<>>
    /\ e_tasks = <<>>
    /\ e_sem = DetailsConcurrency
    /\ e_order = <<>>
    /\ e_fetched = {}

\* --------------------------------------------------------------- the caches
K_value == <<118, 97, 108, 117, 101>>

\* Bodies the marketplace API answers with: two entries; one entry that has an
\* "id" (a string) instead of a "value"; no entry; an entry whose value is null.
RespTwo ==
    JList(<<JDict(<<<<K_name, JStr(<<65, 117, 100, 105>>)>>, <<K_value, JInt(6)>>>>), JDict(<<<<K_name, JStr(<<66, 77, 87>>)>>, <<K_value, JInt(9)>>>>)>>)
RespOne ==
    JList(<<JDict(<<<<K_name, JStr(<<75, 105, 97>>)>>, <<K_id, JStr(<<51, 51>>)>>>>)>>)
RespEmpty == JList(<<>>)
RespNullValue ==
    JList(<<JDict(<<<<K_name, JStr(<<65, 117, 100, 105>>)>>, <<K_value, JNull>>>>)>>)
ApiResponses == {RespTwo, RespOne, RespEmpty, RespNullValue}

\* Brand ids get_models is called with.
BrandIds == {6, 9}

\* An entry of a cached collection: {"name": ..., "id": ...}.
Entry(name, id) == [name |-> name, id |-> id]

\* get_brands, lines 87-92: the entries that have a name and a value, the value
\* through int(); ok is FALSE when int() raises.
RECURSIVE NormalizeBrands(_)
NormalizeBrands(items) ==
    IF items = <<>> THEN [ok |-> TRUE, out |-> <<>>]
    ELSE LET item == Head(items)
             name == Get(item, K_name)
             val == GetOr(item, K_value, Get(item, K_id))
             rest == NormalizeBrands(Tail(items))
         IN  IF Falsy(name) \/ Falsy(val) THEN rest
             ELSE IF ~IntOf(val).ok THEN [ok |-> FALSE, out |-> <<>>]
             ELSE [rest EXCEPT !.out = <<Entry(name, JInt(IntOf(val).v))>> \o @]

\* get_states, line 120: every entry, the value through int().
NormalizeStates(items) ==
    IF \E i \in DOMAIN items : ~IntOf(GetOr(items[i], K_value, Get(items[i], K_id))).ok
    THEN [ok |-> FALSE, out |-> <<>>]
    ELSE [ok |-> TRUE,
          out |-> [i \in DOMAIN items |->
                      Entry(Get(items[i], K_name),
                            JInt(IntOf(GetOr(items[i], K_value, Get(items[i], K_id))).v))]]

\* get_models, line 142: item["name"] and item["value"] as they are; a missing key
\* raises.
NormalizeModels(items) ==
    IF \E i \in DOMAIN items : ~HasKey(items[i], K_name) \/ ~HasKey(items[i], K_value)
    THEN [ok |-> FALSE, out |-> <<>>]
    ELSE [ok |-> TRUE,
          out |-> [i \in DOMAIN items |-> Entry(Get(items[i], K_name), Get(items[i], K_value))]]

IsFreshInclusive(now, last_update) == now - last_update <= CACHE_TTL

\* Lines 75 and 109: now - last_update < CACHE_TTL
IsFresh(now, last_update) == now - last_update < CACHE_TTL

\* Lines 75 and 109: the cached collection is served.
ServedFromCache(cache, now, last_update) == cache # <<>> /\ IsFresh(now, last_update)

\* self._models_cache[brand_id] = models
PutModels(cache, brand_id, models) ==
    [b \in DOMAIN cache \cup {brand_id} |-> IF b = brand_id THEN models ELSE cache[b]]

\* How a getter fails: a status other than 200, or an exception.
Failures == {"status", "raised"}

\* A call slot at rest, and the record of the last return and of its time.
IdleCall(kind) == [kind |-> kind, pc |-> "idle", now |-> 0, brand |-> 0, overtaken |-> FALSE]
Returned(call, via, result) ==
    [kind |-> call.kind, via |-> via, result |-> result, brand |-> call.brand,
     overtaken |-> call.overtaken, at |-> clock]

\* The calls in flight for the same collection as call c are marked when c stores.
Overtake(cs, c) ==
    [d \in DOMAIN cs |->
        IF d = c THEN IdleCall(cs[c].kind)
        ELSE IF cs[d].pc = "fetching" /\ cs[d].kind = cs[c].kind /\ cs[d].brand = cs[c].brand
             THEN [cs[d] EXCEPT !.overtaken = TRUE]
             ELSE cs[d]]

\* time.time() moves on.
Tick(d) ==
    /\ clock + d <= StartTime + MaxElapsed
    /\ clock' = clock + d
    /\ UNCHANGED <<brands_cache, brands_last_update, states_cache, states_last_update,
                   models_cache, models_since, calls, c_ret,
                   notCache>>

\* get_brands, lines 74-78: the cache is served, or the request is issued.
GetBrandsStart(c) ==
    /\ calls[c].kind = "brands" /\ calls[c].pc = "idle"
    /\ IF ServedFromCache(brands_cache, clock, brands_last_update)
       THEN /\ c_ret' = Returned(calls[c], "cache", brands_cache)
            /\ calls' = calls
       ELSE /\ calls' = [calls EXCEPT ![c].pc = "fetching", ![c].now = clock]
            /\ c_ret' = c_ret
    /\ UNCHANGED <<clock, brands_cache, brands_last_update, states_cache,
                   states_last_update, models_cache, models_since, notCache>>

GetBrandsFetchedInTwoSteps(c, data) ==
    /\ calls[c].kind = "brands" /\ calls[c].pc = "fetching"
    /\ LET n == NormalizeBrands(data.v)
       IN  IF n.ok /\ brands_cache # n.out
           THEN /\ brands_cache' = n.out
                /\ UNCHANGED <<brands_last_update, c_ret, calls>>
           ELSE IF n.ok
           THEN /\ brands_last_update' = calls[c].now
                /\ c_ret' = Returned(calls[c], "fetch", n.out)
                /\ calls' = Overtake(calls, c)
                /\ UNCHANGED brands_cache
           ELSE /\ c_ret' = Returned(calls[c], "raised", <<>>)
                /\ calls' = [calls EXCEPT ![c] = IdleCall("brands")]
                /\ UNCHANGED <<brands_cache, brands_last_update>>
    /\ UNCHANGED <<clock, states_cache, states_last_update, models_cache, models_since, notCache>>

\* Lines 80-98: status 200 and a body; the cache and its timestamp are replaced,
\* unless the normalisation raises (lines 99-101).
GetBrandsFetched(c, data) ==
    /\ calls[c].kind = "brands" /\ calls[c].pc = "fetching"
    /\ LET n == NormalizeBrands(data.v)
       IN  IF n.ok
           THEN /\ brands_cache' = n.out
                /\ brands_last_update' = calls[c].now
                /\ c_ret' = Returned(calls[c], "fetch", n.out)
                /\ calls' = Overtake(calls, c)
           ELSE /\ c_ret' = Returned(calls[c], "raised", <<>>)
                /\ calls' = [calls EXCEPT ![c] = IdleCall("brands")]
                /\ UNCHANGED <<brands_cache, brands_last_update>>
    /\ UNCHANGED <<clock, states_cache, states_last_update, models_cache, models_since, notCache>>

GetBrandsFailedClears(c, how) ==
    /\ calls[c].kind = "brands" /\ calls[c].pc = "fetching"
    /\ c_ret' = Returned(calls[c], how, <<>>)
    /\ calls' = [calls EXCEPT ![c] = IdleCall("brands")]
    /\ brands_cache' = <<>>
    /\ UNCHANGED <<clock, brands_last_update, states_cache,
                   states_last_update, models_cache, models_since, notCache>>

\* Lines 81-83 and 99-101: a status other than 200, or an exception.
GetBrandsFailed(c, how) ==
    /\ calls[c].kind = "brands" /\ calls[c].pc = "fetching"
    /\ c_ret' = Returned(calls[c], how, <<>>)
    /\ calls' = [calls EXCEPT ![c] = IdleCall("brands")]
    /\ UNCHANGED <<clock, brands_cache, brands_last_update, states_cache,
                   states_last_update, models_cache, models_since, notCache>>

\* get_states, lines 108-112.
GetStatesStart(c) ==
    /\ calls[c].kind = "states" /\ calls[c].pc = "idle"
    /\ IF ServedFromCache(states_cache, clock, states_last_update)
       THEN /\ c_ret' = Returned(calls[c], "cache", states_cache)
            /\ calls' = calls
       ELSE /\ calls' = [calls EXCEPT ![c].pc = "fetching", ![c].now = clock]
            /\ c_ret' = c_ret
    /\ UNCHANGED <<clock, brands_cache, brands_last_update, states_cache,
                   states_last_update, models_cache, models_since, notCache>>

\* Lines 114-125, and 126-128 when int() raises.
GetStatesFetched(c, data) ==
    /\ calls[c].kind = "states" /\ calls[c].pc = "fetching"
    /\ LET n == NormalizeStates(data.v)
       IN  IF n.ok
           THEN /\ states_cache' = n.out
                /\ states_last_update' = calls[c].now
                /\ c_ret' = Returned(calls[c], "fetch", n.out)
                /\ calls' = Overtake(calls, c)
           ELSE /\ c_ret' = Returned(calls[c], "raised", <<>>)
                /\ calls' = [calls EXCEPT ![c] = IdleCall("states")]
                /\ UNCHANGED <<states_cache, states_last_update>>
    /\ UNCHANGED <<clock, brands_cache, brands_last_update, models_cache, models_since, notCache>>

\* Lines 115-117 and 126-128.
GetStatesFailed(c, how) ==
    /\ calls[c].kind = "states" /\ calls[c].pc = "fetching"
    /\ c_ret' = Returned(calls[c], how, <<>>)
    /\ calls' = [calls EXCEPT ![c] = IdleCall("states")]
    /\ UNCHANGED <<clock, brands_cache, brands_last_update, states_cache,
                   states_last_update, models_cache, models_since, notCache>>

GetModelsStartWithTTL(c, brand_id) ==
    /\ calls[c].kind = "models" /\ calls[c].pc = "idle"
    /\ IF brand_id \in DOMAIN models_cache /\ IsFresh(clock, models_since[brand_id])
       THEN /\ c_ret' = Returned([calls[c] EXCEPT !.brand = brand_id], "cache",
                                 models_cache[brand_id])
            /\ calls' = calls
       ELSE /\ calls' = [calls EXCEPT ![c].pc = "fetching", ![c].brand = brand_id]
            /\ c_ret' = c_ret
    /\ UNCHANGED <<clock, brands_cache, brands_last_update, states_cache,
                   states_last_update, models_cache, models_since, notCache>>

\* get_models, lines 132-136: the brand's list is served if the brand is a key of
\* the cache, else the request is issued.
GetModelsStart(c, brand_id) ==
    /\ calls[c].kind = "models" /\ calls[c].pc = "idle"
    /\ IF brand_id \in DOMAIN models_cache
       THEN /\ c_ret' = Returned([calls[c] EXCEPT !.brand = brand_id], "cache",
                                 models_cache[brand_id])
            /\ calls' = calls
       ELSE /\ calls' = [calls EXCEPT ![c].pc = "fetching", ![c].brand = brand_id]
            /\ c_ret' = c_ret
    /\ UNCHANGED <<clock, brands_cache, brands_last_update, states_cache,
                   states_last_update, models_cache, models_since, notCache>>

\* Lines 138-144, and 145-147 when a key is missing.
GetModelsFetched(c, data) ==
    /\ calls[c].kind = "models" /\ calls[c].pc = "fetching"
    /\ LET n == NormalizeModels(data.v)
       IN  IF n.ok
           THEN /\ models_cache' = PutModels(models_cache, calls[c].brand, n.out)
                /\ models_since' = IF calls[c].brand \in DOMAIN models_since THEN models_since
                                  ELSE PutModels(models_since, calls[c].brand, clock)
                /\ c_ret' = Returned(calls[c], "fetch", n.out)
                /\ calls' = Overtake(calls, c)
           ELSE /\ c_ret' = Returned(calls[c], "raised", <<>>)
                /\ calls' = [calls EXCEPT ![c] = IdleCall("models")]
                /\ UNCHANGED <<models_cache, models_since>>
    /\ UNCHANGED <<clock, brands_cache, brands_last_update, states_cache,
                   states_last_update, notCache>>

\* Lines 139-140 and 145-147.
GetModelsFailed(c, how) ==
    /\ calls[c].kind = "models" /\ calls[c].pc = "fetching"
    /\ c_ret' = Returned(calls[c], how, <<>>)
    /\ calls' = [calls EXCEPT ![c] = IdleCall("models")]
    /\ UNCHANGED <<clock, brands_cache, brands_last_update, states_cache,
                   states_last_update, models_cache, models_since, notCache>>

\* Lines 45-51: the class attributes as the class body leaves them.
InitCaches ==
    /\ clock = StartTime
    /\ brands_cache = <<>>
    /\ brands_last_update = 0
    /\ states_cache = <<>>
    /\ states_last_update = 0
    /\ models_cache = <<>>
    /\ models_since = <<>>
    /\ c_ret = [kind |-> "none", via |-> "none", result |-> <<>>, brand |-> 0,
                overtaken |-> FALSE, at |-> 0]

InitIdleCache ==
    /\ InitCaches
    /\ calls = <<>>

\* ------------------------------------------------------ the conversation flow
\* user.py: one user's conversation with the bot, update by update. The FSM data
\* is modelled in the keys add_search and the name lookups read; the page keys,
\* read by the keyboards alone, and the region, fuel and gearbox names, read by
\* the messages alone, are left out.
FlowUser == 1

\* get_brands, get_models and get_states as the handlers receive them when the
\* list is not empty. The marketplace's model list has an ordinary name and one
\* that is spelled like the bot's own label for "any model".
FlowBrands == NormalizeBrands(RespTwo.v).out
FlowModels ==
    NormalizeModels(<<JDict(<<<<K_name, JStr(Camry)>>, <<K_value, JInt(5)>>>>),
                      JDict(<<<<K_name, JStr(BudYaka)>>, <<K_value, JInt(8)>>>>)>>).out
FlowRegions == NormalizeStates(RespTwo.v).out

\* The buttons pressed: a model of the list, "any model" (0), and the button of a
\* keyboard sent earlier for another brand (77); a region of the list or 0.
ModelChoices == {0, 5, 8, 77}
RegionChoices == {0, 6}
FuelChoices == {0, 2}
GearChoices == {0, 1}

\* The texts typed: the skip button, a number, a word, a superscript two.
T_skip == <<10145, 65039, 32, 1055, 1088, 1086, 1087, 1091, 1089, 1090, 1080, 1090, 1080>>
FlowTexts == {T_skip, <<50, 48, 49, 48>>, <<97, 98, 99>>, <<178>>}
\* The texts typed into the model search: "cam", "zz", "c".
FlowQueries == {<<99, 97, 109>>, <<122, 122>>, <<99>>}

\* How far a handler's Telegram calls get: the first raises, the last one before
\* set_state raises, none raises.
Sends == {"none", "some", "all"}

\* str.isdigit(): true of the decimal digits and of digits such as U+00B2, which
\* int() rejects.
IsDigitStr(s) == s # <<>> /\ \A k \in DOMAIN s : IsDigit(s[k]) \/ s[k] = 178

\* `int(text) if text.isdigit() else 0`
NumberOrZero(text) == IF IsDigitStr(text) THEN IntOf(JStr(text)) ELSE [ok |-> TRUE, v |-> 0]

\* _find_name_by_id, lines 47-52, on a list whose ids are numbers.
RECURSIVE FindNameById(_, _, _)
FindNameById(items, item_id, fallback) ==
    IF items = <<>> THEN fallback
    ELSE IF IntOf(Head(items).id).v = item_id THEN StrOf(Head(items).name)
    ELSE FindNameById(Tail(items), item_id, fallback)

\* state.update_data(**new) and data.get(key, default).
Upd(data, new) ==
    [k \in DOMAIN data \cup DOMAIN new |-> IF k \in DOMAIN new THEN new[k] ELSE data[k]]
GetD(data, key, default) == IF key \in DOMAIN data THEN data[key] ELSE default

\* DatabaseRepo.add_search: the row of the INSERT; data["brand_name"] raises when
\* the key is missing.
AddSearch(user_id, data) ==
    [ok |-> "brand_name" \in DOMAIN data,
     row |-> [user_id |-> user_id,
              brand |-> GetD(data, "brand_name", None),
              brand_id |-> GetD(data, "brand_id", 0),
              model_name |-> GetD(data, "model_name", None),
              model_id |-> GetD(data, "model_id", 0),
              year_from |-> GetD(data, "year_from", 0),
              year_to |-> GetD(data, "year_to", 0),
              price_from |-> GetD(data, "price_from", 0),
              price_to |-> GetD(data, "price_to", 0),
              region_id |-> GetD(data, "region_id", 0),
              fuel_id |-> GetD(data, "fuel_id", 0),
              gearbox_id |-> GetD(data, "gearbox_id", 0),
              status |-> "active"]]

\* A handler that updates the data, talks to the user and sets the next state:
\* when a Telegram call raises, the data stays updated and the state is not set.
Handled(new, next, steps, sent) ==
    /\ f_data' = Upd(f_data, new)
    /\ f_state' = IF sent = "all" THEN next ELSE f_state
    /\ f_done' = IF sent = "all" THEN f_done \o steps ELSE f_done
    /\ f_insert' = <<>>
    /\ UNCHANGED notFlow

\* start_sub, lines 95-105: in any state; without brands nothing is changed.
StartSub(brands, sent) ==
    /\ IF brands = <<>>
       THEN UNCHANGED <<f_data, f_state, f_done>>
       ELSE /\ f_data' = Upd(f_data, [brands |-> brands])
            /\ f_state' = IF sent = "all" THEN "choosing_brand" ELSE f_state
            /\ f_done' = IF sent = "all" THEN <<>> ELSE f_done
    /\ f_insert' = <<>>
    /\ UNCHANGED notFlow

\* process_brand, lines 126-153.
ProcessBrand(brand_id, models, sent) ==
    /\ f_state = "choosing_brand"
    /\ LET brand_name == FindNameById(GetD(f_data, "brands", <<>>), brand_id, DecimalOf(brand_id))
           chosen == [brand_id |-> brand_id, brand_name |-> brand_name]
       IN  IF sent = "none" THEN Handled(chosen, f_state, <<>>, sent)
           ELSE IF models = <<>>
           THEN Handled(Upd(chosen, [model_id |-> 0, model_name |-> BudYaka]),
                        "choosing_year_from", <<"brand", "skip_model">>, sent)
           ELSE Handled(Upd(chosen, [models_all |-> models, model_mode |-> "all"]),
                        "choosing_model", <<"brand">>, sent)

\* process_model_page and back_to_all_models, lines 156-164 and 197-204.
ModelModeAll ==
    /\ f_state = "choosing_model"
    /\ Handled([model_mode |-> "all"], f_state, <<>>, "all")

\* process_model_search_page, lines 207-215.
ModelModeSearch ==
    /\ f_state = "choosing_model"
    /\ Handled([model_mode |-> "search"], f_state, <<>>, "all")

\* start_model_search, lines 167-172.
StartModelSearch ==
    /\ f_state = "choosing_model"
    /\ Handled(<<>>, "choosing_model_search", <<>>, "all")

\* process_model_search_text, lines 175-194: a query too short or without a match
\* changes nothing.
ProcessModelSearchText(query, sent) ==
    /\ f_state = "choosing_model_search"
    /\ LET models_all == GetD(f_data, "models_all", <<>>)
           filtered == SelectSeq(models_all,
                                 LAMBDA m : Contains(Lower(query), Lower(StrOf(m.name))))
       IN  IF Len(query) < 2 \/ filtered = <<>>
           THEN Handled(<<>>, f_state, <<>>, "all")
           ELSE Handled([models_search |-> filtered, model_mode |-> "search"],
                        "choosing_model", <<>>, sent)

ProcessModelNamesById(model_id, sent) ==
    /\ f_state = "choosing_model"
    /\ LET models == IF GetD(f_data, "model_mode", "all") = "search"
                     THEN GetD(f_data, "models_search", <<>>)
                     ELSE GetD(f_data, "models_all", <<>>)
           model_name == FindNameById(models, model_id, BudYaka)
       IN  Handled([model_id |-> model_id, model_name |-> model_name],
                   "choosing_year_from", <<"model">>, sent)

\* process_model, lines 218-238.
ProcessModel(model_id, sent) ==
    /\ f_state = "choosing_model"
    /\ LET models == IF GetD(f_data, "model_mode", "all") = "search"
                     THEN GetD(f_data, "models_search", <<>>)
                     ELSE GetD(f_data, "models_all", <<>>)
           model_name == IF model_id = 0 THEN BudYaka
                         ELSE FindNameById(models, model_id, DecimalOf(model_id))
       IN  Handled([model_id |-> model_id, model_name |-> model_name],
                   "choosing_year_from", <<"model">>, sent)

\* process_year_from, lines 241-253: a text that is neither the skip button nor
\* digits changes nothing, and neither does one int() raises on.
ProcessYearFrom(text, sent) ==
    /\ f_state = "choosing_year_from"
    /\ IF text = T_skip THEN Handled([year_from |-> 0], "choosing_year_to", <<"year_from">>, sent)
       ELSE IF IsDigitStr(text) /\ IntOf(JStr(text)).ok
       THEN Handled([year_from |-> IntOf(JStr(text)).v], "choosing_year_to", <<"year_from">>, sent)
       ELSE Handled(<<>>, f_state, <<>>, "all")

\* process_year_to, lines 256-261.
ProcessYearTo(text, sent) ==
    /\ f_state = "choosing_year_to"
    /\ IF NumberOrZero(text).ok
       THEN Handled([year_to |-> NumberOrZero(text).v], "choosing_price_from", <<"year_to">>, sent)
       ELSE Handled(<<>>, f_state, <<>>, "all")

\* process_price_from, lines 264-269.
ProcessPriceFrom(text, sent) ==
    /\ f_state = "choosing_price_from"
    /\ IF NumberOrZero(text).ok
       THEN Handled([price_from |-> NumberOrZero(text).v], "choosing_price_to", <<"price_from">>, sent)
       ELSE Handled(<<>>, f_state, <<>>, "all")

\* process_price_to, lines 275-298: without regions the region step is skipped.
ProcessPriceTo(text, regions, sent) ==
    /\ f_state = "choosing_price_to"
    /\ IF ~NumberOrZero(text).ok THEN Handled(<<>>, f_state, <<>>, "all")
       ELSE LET typed == [price_to |-> NumberOrZero(text).v]
            IN  IF sent = "none" THEN Handled(typed, f_state, <<>>, sent)
                ELSE IF regions = <<>>
                THEN Handled(Upd(typed, [region_id |-> 0]),
                             "choosing_fuel", <<"price_to", "region_fallback">>, sent)
                ELSE Handled(Upd(typed, [regions |-> regions]),
                             "choosing_region", <<"price_to">>, sent)

\* process_region, lines 318-335.
ProcessRegion(region_id, sent) ==
    /\ f_state = "choosing_region"
    /\ Handled([region_id |-> region_id], "choosing_fuel", <<"region">>, sent)

\* process_fuel, lines 338-347.
ProcessFuel(fuel_id, sent) ==
    /\ f_state = "choosing_fuel"
    /\ Handled([fuel_id |-> fuel_id], "choosing_gearbox", <<"fuel">>, sent)

ProcessSaveInAnyState(gearbox_id, sent, db_ok) ==
    /\ f_state # "none"
    /\ LET data == Upd(f_data, [gearbox_id |-> gearbox_id])
           saved == AddSearch(FlowUser, data)
       IN  IF sent = "none" THEN Handled([gearbox_id |-> gearbox_id], f_state, <<>>, sent)
           ELSE /\ f_insert' = IF db_ok /\ saved.ok THEN <<saved.row>> ELSE <<>>
                /\ f_data' = IF sent = "all" THEN <<>> ELSE data
                /\ f_state' = IF sent = "all" THEN "none" ELSE f_state
                /\ f_done' = IF f_done # <<>> /\ f_done[Len(f_done)] = "gearbox" THEN f_done
                             ELSE Append(f_done, "gearbox")
                /\ UNCHANGED notFlow

\* process_save, lines 350-381: the gearbox is stored and, unless the first
\* Telegram call raises, add_search inserts the row or raises; the state and its
\* data are then cleared, unless the answer that follows raises out of the
\* handler.
ProcessSave(gearbox_id, sent, db_ok) ==
    /\ f_state = "choosing_gearbox"
    /\ LET data == Upd(f_data, [gearbox_id |-> gearbox_id])
           saved == AddSearch(FlowUser, data)
       IN  IF sent = "none" THEN Handled([gearbox_id |-> gearbox_id], f_state, <<>>, sent)
           ELSE /\ f_insert' = IF db_ok /\ saved.ok THEN <<saved.row>> ELSE <<>>
                /\ f_data' = IF sent = "all" THEN <<>> ELSE data
                /\ f_state' = IF sent = "all" THEN "none" ELSE f_state
                /\ f_done' = IF f_done # <<>> /\ f_done[Len(f_done)] = "gearbox" THEN f_done
                             ELSE Append(f_done, "gearbox")
                /\ UNCHANGED notFlow

\* MemoryStorage before the first update: no state, no data.
InitIdleFlow ==
    /\ f_state = "none"
    /\ f_data = <<>>
    /\ f_done = <<>>
    /\ f_insert = <<>>

\* ------------------------------------------------------------ specifications
vars == <<schedVars, queryVars, extractVars, scrapeVars, cacheVars, flowVars>>

InitIdleQuery ==
    /\ q_pc = "idle"
    /\ q_row = NoRow
    /\ q_params = BaseParams(SearchArgs(NoRow))

InitSched ==
    /\ seen_cars = [p \in Pairs |-> 0]
    /\ sched_pc = "warmup"
    /\ last_cycle = "none"
    /\ units = <<>>
    /\ sem = MAX_CONCURRENCY
    /\ called = {}
    /\ attempts = [p \in Pairs |-> 0]
    /\ unpaced = {}
    /\ delivered = {}

\* Several subscriptions polling a marketplace that serves one listing, or one
\* subscription (of any model name) polling one that serves every page, or two
\* subscriptions of one user polling one that serves two listings.
Init ==
    /\ InitSched
    /\ InitIdleQuery
    /\ InitIdleExtract
    /\ InitIdleScrape
    /\ InitIdleCache
    /\ InitIdleFlow
    /\ \/ /\ searches = Table(MaxSubs, 1)
          /\ market = PagesOver({1}, 1)
       \/ /\ searches \in { Table(1, k) : k \in 1..Len(ModelNames) }
          /\ market = PagesOver(Cars, MaxPage)
       \/ /\ searches = TableOfOne(2)
          /\ market = PagesOver({1, 3}, 2)

\* More subscriptions than permits, or none at all.
InitMany ==
    /\ InitSched
    /\ InitIdleQuery
    /\ InitIdleExtract
    /\ InitIdleScrape
    /\ InitIdleCache
    /\ InitIdleFlow
    /\ searches \in { TableOfOne(MaxSubsMany), {InactiveRow} }
    /\ market = PagesOver({1}, 1)

NextSched ==
    \/ WarmUp
    \/ FetchSearches
    \/ FetchNone
    \/ FetchFail
    \/ GatherDone
    \/ Wake
    \/ \E u \in DOMAIN units : AcquirePermit(u)
    \/ \E u \in DOMAIN units : SearchRaise(u)
    \/ \E u \in DOMAIN units : \E page \in market : SearchReturn(u, page)
    \/ \E u \in DOMAIN units : CheckSeen(u)
    \/ \E u \in DOMAIN units : CheckRaise(u)
    \/ \E u \in DOMAIN units : SendOk(u)
    \/ \E u \in DOMAIN units : SendFail(u)
    \/ \E u \in DOMAIN units : Pace(u)

Next ==
    \/ NextSched
    \/ \E sid \in 0..MaxSubs : \E uid \in Users : DelSub(sid, uid)

Spec == Init /\ [][Next]_vars

SpecMany == InitMany /\ [][NextSched]_vars

\* The scheduler under the event loop's scheduling: asyncio.sleep(10) and
\* asyncio.sleep(600) return, so the loop of start_scheduler is not held back for
\* ever once its sleep is over. Nothing is assumed of the network or the database.
InitLive ==
    /\ InitSched
    /\ InitIdleQuery
    /\ InitIdleExtract
    /\ InitIdleScrape
    /\ InitIdleCache
    /\ InitIdleFlow
    /\ searches = Table(MaxSubs, 1)
    /\ market = PagesOver({1}, 1)

LiveSpec == InitLive /\ [][Next]_vars /\ WF_vars(WarmUp) /\ WF_vars(Wake)

\* The query construction alone, over every row of FilterRows.
InitQuery ==
    /\ InitSched
    /\ InitIdleExtract
    /\ InitIdleScrape
    /\ InitIdleCache
    /\ InitIdleFlow
    /\ searches = {InactiveRow}
    /\ market = {<<>>}
    /\ q_pc = "row"
    /\ q_row \in FilterRows
    /\ q_params = BaseParams(SearchArgs(NoRow))

NextQuery == BuildQuery

SpecQuery == InitQuery /\ [][NextQuery]_vars

\* The extractor alone, over the pages of ExtractorPages.
InitExtract ==
    /\ InitSched
    /\ InitIdleQuery
    /\ searches = {InactiveRow}
    /\ market = {<<>>}
    /\ x_pc = "html"
    /\ x_html \in ExtractorPages
    /\ InitIdleScrape
    /\ InitIdleCache
    /\ InitIdleFlow
    /\ x_json = JNull
    /\ x_found = <<>>
    /\ x_results = <<>>
    /\ x_out = <<>>

NextExtract ==
    \/ FindState
    \/ CollectFound
    \/ ConvertFound
    \/ ReturnUnique

SpecExtract == InitExtract /\ [][NextExtract]_vars

\* One search_cars call from its page request on, over the pages of SearchPages.
InitScrape ==
    /\ InitSched
    /\ InitIdleQuery
    /\ InitIdleExtract
    /\ searches = {InactiveRow}
    /\ market = {<<>>}
    /\ s_pc = "request"
    /\ s_status = 0
    /\ s_html = <<>>
    /\ s_exit = "none"
    /\ s_result = <<>>
    /\ e_tasks = <<>>
    /\ e_sem = DetailsConcurrency
    /\ e_order = <<>>
    /\ e_fetched = {}
    /\ InitIdleCache
    /\ InitIdleFlow

NextScrape ==
    \/ \E status \in ErrorStatuses : PageStatus(status)
    \/ \E html \in SearchPages : PageLoaded(html)
    \/ ScrapeRaise
    \/ ExtractPage
    \/ \E k \in DOMAIN e_tasks : EnrichStart(k)
    \/ \E k \in DOMAIN e_tasks : AcquireDetail(k)
    \/ \E k \in DOMAIN e_tasks : \E details \in DetailResults : DetailReturns(k, details)
    \/ \E k \in DOMAIN e_tasks : DetailNone(k)
    \/ \E k \in DOMAIN e_tasks : DetailRaises(k)
    \/ GatherEnriched

SpecScrape == InitScrape /\ [][NextScrape]_vars

\* A listing with an id of its own, a price and a title, and none of the details.
AdNumbered(i) ==
    JDict(<<<<K_id, JInt(100 + i)>>, <<K_price, JDict(<<<<K_USD, JInt(5000)>>>>)>>, <<K_title, JStr(<<65, 100>>)>>>>)

\* A result page of n listings that all need their detail page.
ManyPage(n) == PiniaOnly(FlatState([i \in 1..n |-> AdNumbered(i)]))

\* One search_cars call whose page holds more listings than the enricher has
\* permits.
InitEnrichMany == InitScrape

\* The steps of SpecScrape on that page; every fetch ends by returning nothing,
\* the ending that, like the two others, gives the permit back and no more.
NextEnrichMany ==
    \/ PageLoaded(ManyPage(MaxListingsMany))
    \/ ExtractPage
    \/ \E k \in DOMAIN e_tasks : EnrichStart(k)
    \/ \E k \in DOMAIN e_tasks : AcquireDetail(k)
    \/ \E k \in DOMAIN e_tasks : DetailNone(k)
    \/ GatherEnriched

SpecEnrichMany == InitEnrichMany /\ [][NextEnrichMany]_vars

\* The callers of one getter (get_brands, get_states or get_models) and the clock.
InitCache ==
    /\ InitSched
    /\ InitIdleQuery
    /\ InitIdleExtract
    /\ InitIdleScrape
    /\ searches = {InactiveRow}
    /\ market = {<<>>}
    /\ InitIdleFlow
    /\ InitCaches
    /\ calls \in { [c \in 1..MaxCalls |-> IdleCall(kind)] : kind \in {"brands", "states", "models"} }

NextCache ==
    \/ \E d \in TickSteps : Tick(d)
    \/ \E c \in DOMAIN calls : GetBrandsStart(c)
    \/ \E c \in DOMAIN calls : \E data \in ApiResponses : GetBrandsFetched(c, data)
    \/ \E c \in DOMAIN calls : \E how \in Failures : GetBrandsFailed(c, how)
    \/ \E c \in DOMAIN calls : GetStatesStart(c)
    \/ \E c \in DOMAIN calls : \E data \in ApiResponses : GetStatesFetched(c, data)
    \/ \E c \in DOMAIN calls : \E how \in Failures : GetStatesFailed(c, how)
    \/ \E c \in DOMAIN calls : \E brand_id \in BrandIds : GetModelsStart(c, brand_id)
    \/ \E c \in DOMAIN calls : \E data \in ApiResponses : GetModelsFetched(c, data)
    \/ \E c \in DOMAIN calls : \E how \in Failures : GetModelsFailed(c, how)

SpecCache == InitCache /\ [][NextCache]_vars

\* One user's conversation, from the first update on.
InitFlow ==
    /\ InitSched
    /\ InitIdleQuery
    /\ InitIdleExtract
    /\ InitIdleScrape
    /\ InitIdleCache
    /\ InitIdleFlow
    /\ searches = {InactiveRow}
    /\ market = {<<>>}

NextFlow ==
    \/ \E brands \in {<<>>, FlowBrands} : \E sent \in Sends : StartSub(brands, sent)
    \/ \E brand_id \in BrandIds : \E models \in {<<>>, FlowModels} : \E sent \in Sends :
          ProcessBrand(brand_id, models, sent)
    \/ ModelModeAll
    \/ ModelModeSearch
    \/ StartModelSearch
    \/ \E query \in FlowQueries : \E sent \in Sends : ProcessModelSearchText(query, sent)
    \/ \E model_id \in ModelChoices : \E sent \in Sends : ProcessModel(model_id, sent)
    \/ \E text \in FlowTexts : \E sent \in Sends : ProcessYearFrom(text, sent)
    \/ \E text \in FlowTexts : \E sent \in Sends : ProcessYearTo(text, sent)
    \/ \E text \in FlowTexts : \E sent \in Sends : ProcessPriceFrom(text, sent)
    \/ \E text \in FlowTexts : \E regions \in {<<>>, FlowRegions} : \E sent \in Sends :
          ProcessPriceTo(text, regions, sent)
    \/ \E region_id \in RegionChoices : \E sent \in Sends : ProcessRegion(region_id, sent)
    \/ \E fuel_id \in FuelChoices : \E sent \in Sends : ProcessFuel(fuel_id, sent)
    \/ \E gearbox_id \in GearChoices : \E sent \in Sends : \E db_ok \in BOOLEAN :
          ProcessSave(gearbox_id, sent, db_ok)

SpecFlow == InitFlow /\ [][NextFlow]_vars

\* ==================================================================== claims
Searching == { u \in DOMAIN units : units[u].pc = "searching" }
Waiting == { u \in DOMAIN units : units[u].pc = "wait" }
Running(u) == units[u].pc \in {"check", "send", "pace"}
CarId(u) == units[u].cars[units[u].i].id
UserOf(u) == units[u].search.user_id

\* C1: at every moment of a cycle at most MAX_CONCURRENCY (5) units are inside
\* their search_cars call, however many active subscriptions the cycle has.
C1_SearchesBounded == Cardinality(Searching) <= MAX_CONCURRENCY

\* Five units are searching while a sixth waits for a permit.
C1_Witness == Cardinality(Searching) = MAX_CONCURRENCY /\ Waiting # {}

\* C2: a unit attempts the delivery of a listing only after is_car_seen reported
\* the pair as not seen to that unit, and over all cycles the delivery of one
\* (user, listing) pair is attempted at most once.
C2_DeliverOnlyNewAtMostOnce ==
    /\ \A u \in DOMAIN units :
           units[u].pc \in {"send", "pace"} => CarId(u) \in units[u].marked
    /\ \A p \in Pairs : attempts[p] <= 1

\* A pair delivered in an earlier cycle is being seen-checked again.
C2_Witness ==
    \E u \in DOMAIN units :
        /\ units[u].pc = "check"
        /\ <<UserOf(u), CarId(u)>> \in delivered
        /\ CarId(u) \notin units[u].marked

\* C3: when a unit's search call raises, that unit ends having marked and delivered
\* nothing, the other units are untouched and the cycle stays in gather; and
\* whenever the cycle leaves gather, it leaves it as a normal completion.
C3_SearchErrorIsolated ==
    [][ /\ \A u \in DOMAIN units :
              (u \in DOMAIN units' /\ units[u].outcome = "pending"
                  /\ units'[u].outcome \notin {"pending", "returned"})
              => /\ units'[u].outcome = "search_error"
                 /\ units[u].pc = "searching"
                 /\ units[u].marked = {}
                 /\ seen_cars' = seen_cars
                 /\ attempts' = attempts
                 /\ sched_pc' = "gather"
                 /\ \A v \in DOMAIN units : v # u => units'[v] = units[v]
        /\ (sched_pc = "gather" /\ sched_pc' # "gather")
              => sched_pc' = "sleep" /\ last_cycle' = "ok"
      ]_vars

\* Every unit of the cycle has ended, one by a search error, and another unit of
\* the same cycle delivered a listing.
C3_Witness ==
    /\ sched_pc = "gather"
    /\ \A u \in DOMAIN units : units[u].pc = "done"
    /\ \E u \in DOMAIN units : units[u].outcome = "search_error"
    /\ \E u \in DOMAIN units : units[u].outcome = "returned"
    /\ delivered # {}
    /\ last_cycle = "none"

\* C4: the first is_car_seen call that returns for a pair reports "not seen" and
\* inserts the pair; every later call for the pair reports "seen" and leaves the
\* seen_cars table as it was.
C4_FirstNewThenSeen ==
    [][ \A u \in DOMAIN units :
           (units[u].pc = "check" /\ u \in DOMAIN units' /\ units'[u] # units[u])
           => LET p == <<UserOf(u), CarId(u)>>
              IN  /\ (p \notin called /\ p \in called')
                        => /\ units'[u].pc = "send"
                           /\ seen_cars[p] = 0
                           /\ seen_cars' = [seen_cars EXCEPT ![p] = 1]
                  /\ p \in called
                        => /\ units'[u].pc # "send"
                           /\ seen_cars' = seen_cars
      ]_vars

\* A unit is through with its first listing, which an earlier call had marked: the
\* later call reported it seen.
C4_Witness ==
    \E u \in DOMAIN units :
        /\ Running(u)
        /\ units[u].i >= 2
        /\ units[u].cars[1].id \notin units[u].marked
        /\ <<UserOf(u), units[u].cars[1].id>> \in called

\* The listings a running unit is through with the seen-check of.
Processed(u) ==
    { units[u].cars[j].id : j \in 1..(units[u].i - 1) }
        \cup (IF units[u].pc \in {"send", "pace"} THEN {CarId(u)} ELSE {})

\* Two units of one user with the same listing under the seen-check at once.
Racing(u, v) ==
    /\ u # v
    /\ units[u].pc = "check" /\ units[v].pc = "check"
    /\ UserOf(u) = UserOf(v)
    /\ CarId(u) = CarId(v)

\* C5: of two units that process the same (user, listing) pair in one cycle, no
\* two are told "not seen"; the one whose call returns first on an unseen pair is
\* told "not seen" and goes on to deliver, the other is left untouched by that step;
\* and the seen_cars table never holds more than one row for a pair.
C5_OneWinnerPerPair ==
    /\ [](\A u, v \in DOMAIN units :
            (u # v /\ UserOf(u) = UserOf(v))
            => /\ units[u].marked \cap units[v].marked = {}
               /\ \A c \in Processed(u) :
                     (Running(v) /\ c \in { units[v].cars[j].id : j \in DOMAIN units[v].cars })
                     => seen_cars[<<UserOf(u), c>>] = 1)
    /\ [](\A p \in Pairs : seen_cars[p] <= 1)
    /\ [][ \A u, v \in DOMAIN units :
              (Racing(u, v) /\ seen_cars[<<UserOf(u), CarId(u)>>] = 0
                  /\ units'[u] # units[u] /\ units'[v] = units[v])
              => /\ units'[u].pc \in {"send", "done"}
                 /\ units'[u].pc = "send"
                       => /\ CarId(u) \in units'[u].marked
                          /\ seen_cars'[<<UserOf(u), CarId(u)>>] = 1
                 /\ units'[u].pc = "done" => seen_cars' = seen_cars
       ]_vars

\* One unit was told "not seen" for a pair and is about to deliver it, while another
\* unit of the same user is through with the same listing without having marked it.
C5_Witness ==
    \E u, v \in DOMAIN units :
        /\ u # v
        /\ UserOf(u) = UserOf(v)
        /\ units[u].pc = "send"
        /\ Running(v)
        /\ CarId(u) \in Processed(v)
        /\ CarId(u) \notin units[v].marked
        /\ seen_cars[<<UserOf(u), CarId(u)>>] = 1

MatchesModel(name, title) ==
    \E k \in 0..(Len(title) - Len(name)) :
        \A j \in 1..Len(name) : LowerChar(title[k + j]) = LowerChar(name[j])

\* The row names a model: the name is there and is neither "any model" sentinel.
NamesModel(name) == name # None /\ name # <<>> /\ name # BudYaka /\ name # VsiModeli

IdsOf(cars) == { cars[j].id : j \in DOMAIN cars }

\* C7: a unit whose row names a model goes on with exactly the listings of the
\* result page whose title holds the model name (letter case aside) and marks no
\* other; a unit whose row carries a sentinel or no name goes on with the whole
\* page; either way every listing before the unit's index has been seen-marked,
\* and the step that ends the search marks nothing.
C7_SafetyFilter ==
    /\ [](\A u \in DOMAIN units :
            Running(u)
            => LET name == units[u].search.model_name
                   found == units[u].found
                   cars == units[u].cars
               IN  /\ NamesModel(name)
                        => /\ \A j \in DOMAIN found :
                                  found[j] \in { cars[k] : k \in DOMAIN cars }
                                      <=> MatchesModel(name, found[j].title)
                           /\ \A c \in units[u].marked : MatchesModel(name, TitleOf(c))
                   /\ ~NamesModel(name) => cars = found
                   /\ IdsOf(cars) \subseteq IdsOf(found)
                   /\ units[u].marked \subseteq Processed(u)
                   /\ \A c \in Processed(u) : seen_cars[<<UserOf(u), c>>] >= 1)
    /\ [][ \A u \in DOMAIN units :
              (units[u].pc = "searching" /\ u \in DOMAIN units' /\ units'[u] # units[u])
              => seen_cars' = seen_cars /\ attempts' = attempts
       ]_vars

\* A unit whose row names a model dropped a listing of its page and delivered one
\* whose title holds the name in another letter case.
C7_Witness ==
    \E u \in DOMAIN units :
        /\ units[u].pc = "pace"
        /\ NamesModel(units[u].search.model_name)
        /\ Len(units[u].cars) < Len(units[u].found)
        /\ ~Contains(units[u].search.model_name, units[u].cars[units[u].i].title)

\* C8: when a send fails, the unit goes on to the seen-check of the next listing of
\* the same result set (or, after the last listing, returns normally).
C8_SendFailureContinues ==
    [][ \A u \in DOMAIN units :
           (units[u].pc = "send" /\ u \in DOMAIN units' /\ units'[u] # units[u]
               /\ units'[u].pc # "pace")
           => /\ attempts'[<<UserOf(u), CarId(u)>>] = attempts[<<UserOf(u), CarId(u)>>] + 1
              /\ IF units[u].i < Len(units[u].cars)
                 THEN /\ units'[u].pc = "check"
                      /\ units'[u].i = units[u].i + 1
                      /\ units'[u].cars = units[u].cars
                      /\ units'[u].marked = units[u].marked
                 ELSE units'[u].pc = "done" /\ units'[u].outcome = "returned"
      ]_vars

\* The send of a unit's first listing failed, and the unit has since found its
\* second listing new and delivered it.
C8_Witness ==
    \E u \in DOMAIN units :
        /\ units[u].pc = "pace"
        /\ units[u].i = 2
        /\ units[u].cars[1].id \in units[u].marked
        /\ <<UserOf(u), units[u].cars[1].id>> \notin delivered
        /\ <<UserOf(u), units[u].cars[2].id>> \in delivered

\* C9: the scheduler loop never stops on an error, and after every cycle that
\* failed with an exception the scheduler sleeps and then starts a further cycle,
\* however many cycles failed before.
C9_SchedulerSurvivesErrors ==
    /\ [](sched_pc # "stopped")
    /\ [](last_cycle = "error" => sched_pc \in {"sleep", "ready", "gather"})
    /\ (sched_pc = "sleep" /\ last_cycle = "error") ~> (sched_pc = "ready")

\* A cycle is running its units after the cycle before it failed.
C9_Witness == sched_pc = "gather" /\ last_cycle = "error" /\ Searching # {}

\* ------------------------------------------------------------ query building
QueryArgs == SearchArgs(q_row)

HasParam(k) == k \in DOMAIN q_params

BrandAlwaysSent ==
    HasParam("brand.id[0]") /\ q_params["brand.id[0]"] = QueryArgs.brand_id

SentWithValue(f) ==
    HasParam(OptionalParam[f]) /\ q_params[OptionalParam[f]] = QueryArgs[f]

\* C10 as stated: the query always carries the brand parameter, and carries each
\* of model, year-from, year-to, price-from, price-to, region, gearbox and fuel
\* exactly when that filter value is non-zero.
C10_OptionalIffNonZero ==
    q_pc = "built" =>
        /\ BrandAlwaysSent
        /\ \A f \in DOMAIN OptionalParam :
               HasParam(OptionalParam[f]) <=> QueryArgs[f] # 0

\* C10: the query always carries the brand parameter with the brand id given, even
\* 0; it carries the model parameter exactly when the model id is positive, and
\* each of year-from, year-to, price-from, price-to, region, gearbox and fuel
\* exactly when that filter value is non-zero; a parameter carried has the value
\* of its filter, and nothing else is added to the five fixed parameters.
C10_ModelIffPositiveOthersIffNonZero ==
    q_pc = "built" =>
        /\ BrandAlwaysSent
        /\ HasParam("model.id[0]") <=> QueryArgs.model_id > 0
        /\ \A f \in DOMAIN OptionalParam \ {"model_id"} :
               HasParam(OptionalParam[f]) <=> QueryArgs[f] # 0
        /\ \A f \in DOMAIN OptionalParam :
               HasParam(OptionalParam[f]) => SentWithValue(f)
        /\ DOMAIN q_params \subseteq
               DOMAIN BaseParams(QueryArgs) \cup { OptionalParam[f] : f \in DOMAIN OptionalParam }

\* A query built for brand 0 and a negative model id: the brand is sent, the model
\* is left out, and a non-zero year and region are sent.
C10_Witness ==
    /\ q_pc = "built"
    /\ QueryArgs.brand_id = 0
    /\ HasParam("brand.id[0]")
    /\ QueryArgs.model_id < 0
    /\ ~HasParam("model.id[0]")
    /\ QueryArgs.year_from # 0
    /\ HasParam("year[0].gte")
    /\ QueryArgs.region_id # 0
    /\ HasParam("state[0]")
    /\ QueryArgs.price_to = 0
    /\ ~HasParam("price.USD.lte")

\* ------------------------------------------------- delivery across cycles
\* C19: a delivery is attempted only for a pair that is already in the seen_cars
\* table, and a pair whose delivery has been attempted, successfully or not, is
\* never attempted again in this or any later cycle: a failed delivery stays failed.
C19_MarkedBeforeAttemptNeverRetried ==
    [][ \A p \in Pairs :
           /\ attempts'[p] # attempts[p]
                 => /\ seen_cars[p] >= 1
                    /\ attempts[p] = 0
                    /\ attempts'[p] = 1
           /\ (attempts[p] >= 1 /\ p \notin delivered)
                 => /\ attempts'[p] = attempts[p]
                    /\ p \notin delivered'
           /\ seen_cars[p] >= 1 => seen_cars'[p] = seen_cars[p]
      ]_vars

\* The only subscription's unit, in a later cycle, is past the seen-check of a
\* listing whose one delivery attempt failed: it did not mark it and goes on.
C19_Witness ==
    /\ Len(units) = 1
    /\ last_cycle = "ok"
    /\ Running(1)
    /\ \E c \in Processed(1) :
          /\ attempts[<<UserOf(1), c>>] = 1
          /\ <<UserOf(1), c>> \notin delivered
          /\ c \notin units[1].marked

\* C20 as claimed: when the seen-check of a listing fails (the unit leaves the
\* check without a verdict), the unit goes on to the next listing of its result
\* set, the other units are untouched and the cycle stays in gather.
C20_SeenCheckFailureContinues ==
    [][ \A u \in DOMAIN units :
           (units[u].pc = "check" /\ u \in DOMAIN units' /\ units'[u] # units[u]
               /\ called' = called /\ seen_cars' = seen_cars
               /\ units[u].i < Len(units[u].cars))
           => /\ units'[u].pc = "check"
              /\ units'[u].i = units[u].i + 1
              /\ sched_pc' = "gather"
              /\ \A v \in DOMAIN units : v # u => units'[v] = units[v]
      ]_vars

\* ------------------------------------------------------------ the extractor
\* The id of a found object as a number, where it has one.
HasIntId(d) == HasKey(d, K_id) /\ IntOf(Get(d, K_id)).ok
IntIdOf(d) == IntOf(Get(d, K_id)).v

\* C12 as claimed: every listing the extractor returns has a non-zero id and a
\* non-zero price in US dollars.
C12_OutputHasIdAndPrice ==
    x_pc = "done" =>
        \A k \in DOMAIN x_out : x_out[k].id # 0 /\ x_out[k].price_usd # 0

\* C13 as claimed: no two listings of the output share an id, and when several
\* found objects share an id, the output holds exactly one listing of that id,
\* with the title and the price of the last of them found.
C13_OneRecordOfLastCandidate ==
    x_pc = "done" =>
        /\ \A a, b \in DOMAIN x_out : a # b => x_out[a].id # x_out[b].id
        /\ \A i, j \in DOMAIN x_found :
              (i < j /\ HasIntId(x_found[i]) /\ HasIntId(x_found[j])
                  /\ IntIdOf(x_found[i]) = IntIdOf(x_found[j])
                  /\ \A k \in (j + 1)..Len(x_found) :
                        ~(HasIntId(x_found[k]) /\ IntIdOf(x_found[k]) = IntIdOf(x_found[j])))
              => /\ Cardinality({ k \in DOMAIN x_out : x_out[k].id = IntIdOf(x_found[j]) }) = 1
                 /\ \A k \in DOMAIN x_out :
                       x_out[k].id = IntIdOf(x_found[j])
                       => /\ x_out[k].title = TitleOfAd(x_found[j])
                          /\ x_out[k].price_usd = PriceOf(x_found[j]).v

\* C13: no two listings of the output share an id; of the found objects that
\* have a usable id and price (those a listing was built from), the ones that
\* share an id leave exactly one listing in the output, equal in every field to
\* the listing built from the last of them found; and the output holds no other id.
C13_OneRecordOfLastListing ==
    x_pc = "done" =>
        /\ \A a, b \in DOMAIN x_out : a # b => x_out[a].id # x_out[b].id
        /\ \A j \in DOMAIN x_results :
              (\A k \in (j + 1)..Len(x_results) : x_results[k].id # x_results[j].id)
              => /\ Cardinality({ k \in DOMAIN x_out : x_out[k].id = x_results[j].id }) = 1
                 /\ \A k \in DOMAIN x_out :
                       x_out[k].id = x_results[j].id => x_out[k] = x_results[j]
        /\ \A k \in DOMAIN x_out : \E j \in DOMAIN x_results : x_results[j].id = x_out[k].id

\* Two listings of one id were built, with different titles, and the output holds
\* one listing, with the title of the second.
C13_Witness ==
    /\ x_pc = "done"
    /\ Len(x_results) = 2
    /\ x_results[1].id = x_results[2].id
    /\ x_results[1].title # x_results[2].title
    /\ Len(x_out) = 1
    /\ x_out[1].title = x_results[2].title

\* The page that embeds the same literal under the other marker.
OtherMarker(html) ==
    [i \in DOMAIN html |->
        [html[i] EXCEPT !.marker = IF @ = "PINIA" THEN "NUXT" ELSE IF @ = "NUXT" THEN "PINIA" ELSE @]]

OneMarkerOnly(html) == Len(html) = 1 /\ html[1].marker \in {"PINIA", "NUXT"}

\* C14: a page that embeds a state object under one of the two markers only is
\* extracted to the same sequence of listings as the page that embeds the same
\* object under the other marker only.
C14_MarkersEquivalent ==
    (x_pc = "done" /\ OneMarkerOnly(x_html)) => x_out = ExtractCars(OtherMarker(x_html))

\* A page with the legacy marker only was extracted to two listings.
C14_Witness ==
    /\ x_pc = "done"
    /\ OneMarkerOnly(x_html)
    /\ x_html[1].marker = "NUXT"
    /\ Len(x_out) = 2
    /\ x_out[1].location # <<>>

\* ----------------------------------------------------------- search_cars
\* C11: search_cars always returns to its caller, never raises; it returns the
\* empty list when the page is answered with a status other than 200, when an
\* exception is caught, and when the page loads but no listing is extracted, and
\* in that last case no enrich task is created and no detail fetch is issued; a
\* status other than 200 or an empty extraction ends the call in just that way.
C11_FailuresReturnEmpty ==
    s_pc = "done" =>
        /\ s_exit \in {"status", "empty", "error", "enriched"}
        /\ s_exit \in {"status", "empty", "error"} => s_result = <<>>
        /\ s_status \notin {0, 200} => s_exit = "status"
        /\ s_exit = "status" => s_status \notin {0, 200} /\ e_tasks = <<>> /\ e_fetched = {}
        /\ s_exit = "empty" => s_status = 200 /\ e_tasks = <<>> /\ e_fetched = {}
        /\ (s_status = 200 /\ ExtractCars(s_html) = <<>>) => s_exit \in {"empty", "error"}
        /\ s_exit = "enriched" => s_status = 200 /\ ExtractCars(s_html) # <<>>

\* The call ended by an exception caught after a detail fetch had been issued.
C11_Witness ==
    /\ s_pc = "done"
    /\ s_exit = "error"
    /\ s_status = 200
    /\ e_fetched # {}
    /\ s_result = <<>>

\* C15: the list the enricher returns is as long as the list it was given and has
\* the same ids at the same positions, whatever happened to each detail fetch and
\* in whatever order the tasks completed.
C15_EnrichKeepsLengthAndOrder ==
    (s_pc = "done" /\ s_exit = "enriched") =>
        LET cars == ExtractCars(s_html)
        IN  /\ Len(s_result) = Len(cars)
            /\ \A k \in DOMAIN cars : s_result[k].id = cars[k].id

\* Two listings were enriched, the second completed before the first, and one
\* fetch failed while the other returned details.
C15_Witness ==
    /\ s_pc = "done"
    /\ s_exit = "enriched"
    /\ e_order = <<2, 1>>
    /\ e_tasks[1].how = "details"
    /\ e_tasks[2].how \in {"none", "raised"}
    /\ s_result[1].id # s_result[2].id

\* C16: every listing search_cars returns has a non-empty location, gearbox and
\* fuel: a field the enrichment left empty carries the placeholder dash, and a
\* field it left non-empty carries that value.
C16_NoEmptyDetailReturned ==
    s_pc = "done" =>
        \A k \in DOMAIN s_result :
            /\ s_result[k].location # <<>> /\ s_result[k].gearbox # <<>> /\ s_result[k].fuel # <<>>
            /\ s_result[k].location = IF e_tasks[k].car.location = <<>> THEN T_dash
                                      ELSE e_tasks[k].car.location
            /\ s_result[k].gearbox = IF e_tasks[k].car.gearbox = <<>> THEN T_dash
                                     ELSE e_tasks[k].car.gearbox
            /\ s_result[k].fuel = IF e_tasks[k].car.fuel = <<>> THEN T_dash
                                  ELSE e_tasks[k].car.fuel

\* A listing whose detail fetch failed is returned with the dash for its gearbox and
\* its fuel and the location the page gave; another, complete one, needed no fetch.
C16_Witness ==
    /\ s_pc = "done"
    /\ \E k \in DOMAIN s_result :
          /\ e_tasks[k].how = "none"
          /\ s_result[k].gearbox = T_dash
          /\ s_result[k].fuel = T_dash
          /\ s_result[k].location \notin {T_dash, <<>>}
    /\ \E k \in DOMAIN s_result : e_tasks[k].how = "complete"

\* C17: get_brands and get_states return the cached collection, without issuing a
\* request, exactly when the collection is non-empty and now - last refresh < 3600;
\* in every other case the request is issued and, on success, the collection and
\* its timestamp are replaced by the result and the time the call read; so a
\* collection whose age has reached the time to live is never returned.
C17_TtlGovernsServing ==
    [][\A c \in DOMAIN calls :
          calls[c].kind \in {"brands", "states"} =>
            LET brands == calls[c].kind = "brands"
                cache == IF brands THEN brands_cache ELSE states_cache
                last == IF brands THEN brands_last_update ELSE states_last_update
                fresh == cache # <<>> /\ clock - last < 3600
            IN  /\ (calls[c].pc = "idle" /\ calls'[c].pc = "fetching") => ~fresh
                /\ (c_ret'.via = "cache" /\ c_ret' # c_ret) =>
                      /\ fresh
                      /\ c_ret'.result = cache
                      /\ calls' = calls
                      /\ UNCHANGED <<brands_cache, brands_last_update,
                                     states_cache, states_last_update>>
                /\ (calls[c].pc = "fetching" /\ calls'[c].pc = "idle"
                        /\ c_ret'.via = "fetch") =>
                      IF brands
                      THEN brands_cache' = c_ret'.result
                              /\ brands_last_update' = calls[c].now
                      ELSE states_cache' = c_ret'.result
                              /\ states_last_update' = calls[c].now]_vars

\* A collection one second short of the time to live has just been served while
\* another caller, who found nothing to serve, still waits for its answer.
C17_Witness ==
    /\ c_ret.via = "cache"
    /\ c_ret.kind = "brands"
    /\ c_ret.result = brands_cache
    /\ clock - brands_last_update = CACHE_TTL - 1
    /\ \E c \in DOMAIN calls : calls[c].pc = "fetching"

C21_CyclesDoNotOverlap ==
    [][/\ (sched_pc = "gather" /\ sched_pc' # "gather") =>
              /\ \A u \in DOMAIN units : units[u].pc = "done"
              /\ sched_pc' = "sleep"
       /\ (sched_pc # "ready" /\ sched_pc' = "ready") => sched_pc \in {"warmup", "sleep"}
       /\ (sched_pc # "gather" /\ sched_pc' = "gather") =>
              /\ sched_pc = "ready"
              /\ units = <<>>
              /\ \A u \in DOMAIN units' : units'[u].pc = "wait"]_vars

\* A unit of a later cycle is delivering after an earlier cycle ended normally.
C21_Witness ==
    /\ sched_pc = "gather"
    /\ last_cycle = "ok"
    /\ \E u \in DOMAIN units : units[u].pc = "send"
    /\ delivered # {}

\* C22: the permits taken from the cycle's semaphore are exactly those of the units
\* inside their search_cars call: a unit that waits, marks, delivers, paces or has
\* finished holds none, whichever way its search ended, and outside a running
\* cycle all MAX_CONCURRENCY (5) permits are free.
C22_PermitHeldOnlyWhileSearching ==
    /\ sem = MAX_CONCURRENCY - Cardinality(Searching)
    /\ (\A u \in DOMAIN units : units[u].pc = "done") => sem = MAX_CONCURRENCY
    /\ sched_pc # "gather" => sem = MAX_CONCURRENCY

\* More than five units are marking or delivering at once, with every permit free.
C22_Witness ==
    /\ Cardinality({ u \in DOMAIN units : Running(u) }) > MAX_CONCURRENCY
    /\ sem = MAX_CONCURRENCY
    /\ \E u \in DOMAIN units : units[u].pc = "send"

\* Where the listing of an id stands on the page search_cars returned to a unit.
PlaceOnPage(u, id) == CHOOSE k \in DOMAIN units[u].found : units[u].found[k].id = id

\* C23: within one unit the listings that pass the safety filter keep the order of
\* the page search_cars returned, and the listing whose delivery is being attempted
\* stands on that page after every listing the unit has attempted before.
C23_DeliveredInPageOrder ==
    \A u \in DOMAIN units :
        /\ \A a, b \in DOMAIN units[u].cars :
               a < b => PlaceOnPage(u, units[u].cars[a].id) < PlaceOnPage(u, units[u].cars[b].id)
        /\ units[u].pc \in {"send", "pace"} =>
               \A m \in units[u].marked \ {CarId(u)} :
                   PlaceOnPage(u, m) < PlaceOnPage(u, CarId(u))

\* A unit attempts its second listing, which the page carries after a listing of a
\* higher id, while a unit created before it has not finished its search.
C23_Witness ==
    \E u \in DOMAIN units :
        /\ units[u].pc = "send"
        /\ units[u].i = 2
        /\ Cardinality(units[u].marked) = 2
        /\ units[u].found[1].id > units[u].found[2].id
        /\ \E v \in DOMAIN units : v < u /\ units[v].pc \in {"wait", "searching"}

\* C24: within one unit the pacing sleep (0.5 s) has ended between any two
\* consecutive delivery attempts, also when the earlier of the two failed: a unit
\* about to attempt a delivery has slept since its previous attempt.
C24_PacedBetweenAttempts ==
    \A u \in DOMAIN units : units[u].pc = "send" => u \notin unpaced

\* C25: when check_new_cars finds no active row in the searches table, the cycle is
\* over in that step: no unit is created, no permit is taken, no seen record is
\* written, no delivery is attempted, and start_scheduler goes on to its sleep.
C25_IdleCycleDoesNothing ==
    [][(/\ sched_pc = "ready"
        /\ sched_pc' # "ready"
        /\ { r \in searches : r.status = "active" } = {}) =>
            /\ sched_pc' = "sleep"
            /\ units' = <<>>
            /\ UNCHANGED <<searches, seen_cars, sem, called, attempts, delivered>>]_vars

\* A cycle found nothing to do after an earlier one had delivered: the owner has
\* deleted the subscription in between.
C25_Witness ==
    /\ sched_pc = "sleep"
    /\ last_cycle = "idle"
    /\ delivered # {}
    /\ units = <<>>

\* The scheduler has taken a step.
SchedulerMoved ==
    <<sched_pc, last_cycle, units, sem, seen_cars, called, attempts, delivered>>'
        # <<sched_pc, last_cycle, units, sem, seen_cars, called, attempts, delivered>>

\* C26: no step of the scheduler changes the searches table, no step at all takes
\* a record out of the seen_cars table, and the only write a step of the scheduler
\* makes is the insert of the one record a unit's is_car_seen call is about.
C26_SchedulerOnlyInsertsSeen ==
    [][/\ SchedulerMoved => searches' = searches
       /\ \A p \in Pairs : seen_cars'[p] >= seen_cars[p]
       /\ seen_cars' # seen_cars =>
            \E u \in DOMAIN units :
                /\ units[u].pc = "check"
                /\ seen_cars[PairOf(units[u])] = 0
                /\ seen_cars' = [seen_cars EXCEPT ![PairOf(units[u])] = 1]]_vars

\* A later cycle is marking with two records in the seen_cars table, and the owner
\* has deleted one of the subscriptions it works on.
C26_Witness ==
    /\ Cardinality({ p \in Pairs : seen_cars[p] > 0 }) >= 2
    /\ sched_pc = "gather"
    /\ last_cycle = "ok"
    /\ \E u \in DOMAIN units : units[u].pc = "check"
    /\ Cardinality(GetActiveSearches(searches)) < Cardinality(DOMAIN units)

\* C27: a cycle creates one unit for each row that is active in the searches table
\* when it fetches, and none for any other row; a unit keeps the row it was created
\* with; a deletion leaves the units of the running cycle as they are; and every
\* delivery attempt is made by a unit, for the owner of the row the unit holds.
C27_CycleWorksFromSnapshot ==
    [][/\ (sched_pc = "ready" /\ sched_pc' = "gather") =>
            /\ { units'[u].search : u \in DOMAIN units' }
                   = { r \in searches : r.status = "active" }
            /\ Len(units') = Cardinality({ r \in searches : r.status = "active" })
       /\ (sched_pc = "gather" /\ sched_pc' = "gather") =>
            /\ DOMAIN units' = DOMAIN units
            /\ \A u \in DOMAIN units : units'[u].search = units[u].search
       /\ searches' # searches => units' = units
       /\ attempts' # attempts =>
            \E u \in DOMAIN units :
                /\ units[u].pc = "send"
                /\ attempts' = [attempts EXCEPT
                                  ![<<units[u].search.user_id, units[u].cars[units[u].i].id>>] = @ + 1]]_vars

\* A unit is delivering for a row its owner deleted after the cycle had fetched it.
C27_Witness ==
    /\ sched_pc = "gather"
    /\ \E u \in DOMAIN units :
           /\ units[u].pc = "send"
           /\ units[u].search \notin searches

\* The page assigns an object literal to the marker and the leftmost such literal
\* is one json.loads accepts; and what it parses to.
MarkerParses(html, marker) ==
    /\ \E i \in DOMAIN html : html[i].marker = marker
    /\ \A i \in DOMAIN html :
           (html[i].marker = marker /\ \A j \in 1..(i - 1) : html[j].marker # marker)
               => html[i].valid
MarkerValue(html, marker) ==
    html[CHOOSE i \in DOMAIN html :
            html[i].marker = marker /\ \A j \in 1..(i - 1) : html[j].marker # marker].value

\* C28 as stated: the state the extractor works on is the one under the current
\* marker whenever that marker is there and its literal parses, the one under the
\* legacy marker when it is not and the legacy literal parses, and when neither
\* parses the extractor returns the empty list.
C28_LegacyOnlyWhenCurrentFails ==
    x_pc \notin {"idle", "html"} =>
        /\ MarkerParses(x_html, "PINIA") => x_json = MarkerValue(x_html, "PINIA")
        /\ (~MarkerParses(x_html, "PINIA") /\ MarkerParses(x_html, "NUXT")) =>
               x_json = MarkerValue(x_html, "NUXT")
        /\ (~MarkerParses(x_html, "PINIA") /\ ~MarkerParses(x_html, "NUXT")) =>
               x_pc = "done" /\ x_out = <<>>

\* The current marker yields a state when its literal parses to a non-empty object.
CurrentYields(html) ==
    MarkerParses(html, "PINIA") /\ MarkerValue(html, "PINIA") # JDict(<<>>)

\* C28, amended: the legacy marker is used when the current marker is absent, its
\* literal fails to parse, or it parses to an empty object.
C28_LegacyWhenCurrentYieldsNothing ==
    x_pc \notin {"idle", "html"} =>
        /\ CurrentYields(x_html) => x_json = MarkerValue(x_html, "PINIA")
        /\ (~CurrentYields(x_html) /\ MarkerParses(x_html, "NUXT")) =>
               x_json = MarkerValue(x_html, "NUXT")
        /\ (~MarkerParses(x_html, "PINIA") /\ ~MarkerParses(x_html, "NUXT")) =>
               x_pc = "done" /\ x_out = <<>>

\* A page whose current marker holds an empty object was extracted to the listing
\* its legacy marker holds.
C28_Witness ==
    /\ x_pc = "done"
    /\ MarkerParses(x_html, "PINIA")
    /\ ~CurrentYields(x_html)
    /\ MarkerParses(x_html, "NUXT")
    /\ x_out # <<>>

\* The page holds one parsable state, of the shape {"search": {"items": [...]}},
\* under one of the two markers; and the objects of that list.
IsFlatPage(html) ==
    /\ OneMarkerOnly(html)
    /\ html[1].valid
    /\ LET s == html[1].value
       IN  /\ s.t = "dict" /\ Len(s.v) = 1 /\ s.v[1][1] = K_search
           /\ s.v[1][2].t = "dict" /\ Len(s.v[1][2].v) = 1
           /\ s.v[1][2].v[1][1] = K_items
           /\ s.v[1][2].v[1][2].t = "list"
FlatItems(html) == html[1].value.v[1][2].v[1][2].v

\* An object with a non-zero integer id, a title or basicInfo, and a price that is
\* a bare non-zero number.
BarePriced(d) ==
    /\ d.t = "dict"
    /\ HasKey(d, K_id) /\ Get(d, K_id).t = "int" /\ Get(d, K_id).v # 0
    /\ HasKey(d, K_title) \/ HasKey(d, K_basicInfo)
    /\ HasKey(d, K_price) /\ Get(d, K_price).t = "int" /\ Get(d, K_price).v # 0

\* C29: an object with an id, a title or basicInfo, and a bare non-zero number as
\* its price, the only object of its id on the page, is extracted as a listing of
\* that id with that number as its price.
C29_BarePriceExtracted ==
    (x_pc = "done" /\ IsFlatPage(x_html)) =>
        \A i \in DOMAIN FlatItems(x_html) :
            LET d == FlatItems(x_html)[i]
            IN  (/\ BarePriced(d)
                 /\ \A j \in DOMAIN FlatItems(x_html) \ {i} :
                        ~HasIntId(FlatItems(x_html)[j])
                            \/ IntIdOf(FlatItems(x_html)[j]) # Get(d, K_id).v) =>
                    \E k \in DOMAIN x_out :
                        /\ x_out[k].id = Get(d, K_id).v
                        /\ x_out[k].price_usd = Get(d, K_price).v

\* Listing b is listing a with nothing but empty or zero fields assigned.
OnlyBlanksFilled(a, b) ==
    /\ b.id = a.id /\ b.price_usd = a.price_usd /\ b.url = a.url
    /\ a.title # <<>> => b.title = a.title
    /\ a.image_url # <<>> => b.image_url = a.image_url
    /\ a.location # <<>> => b.location = a.location
    /\ a.gearbox # <<>> => b.gearbox = a.gearbox
    /\ a.fuel # <<>> => b.fuel = a.fuel
    /\ a.mileage # 0 => b.mileage = a.mileage

\* C30: at every moment of the enrichment, and in what search_cars returns after
\* it, each listing has the id, price and URL the extractor gave it, and every
\* title, image URL, location, gearbox, fuel and mileage the extractor had set.
C30_EnrichFillsOnlyBlanks ==
    (s_pc \in {"enrich", "done"} /\ e_tasks # <<>>) =>
        \A k \in DOMAIN e_tasks :
            /\ OnlyBlanksFilled(ExtractCars(s_html)[k], e_tasks[k].car)
            /\ (s_pc = "done" /\ s_exit = "enriched") =>
                   OnlyBlanksFilled(ExtractCars(s_html)[k], s_result[k])

\* A listing extracted with a location and no gearbox was enriched from a detail
\* page that names another location: it has kept its location and taken the page's
\* gearbox.
C30_Witness ==
    /\ s_pc = "done"
    /\ s_exit = "enriched"
    /\ \E k \in DOMAIN s_result :
          LET a == ExtractCars(s_html)[k]
          IN  /\ e_tasks[k].how = "details"
              /\ a.location # <<>> /\ a.gearbox = <<>>
              /\ s_result[k].location = a.location
              /\ \E d \in DetailResults :
                    /\ Truthy(d.location) /\ d.location # a.location
                    /\ Truthy(d.gearbox) /\ s_result[k].gearbox = d.gearbox

\* Line 346 read on a listing: none of the four fields is empty or zero.
NothingMissing(car) ==
    car.location # <<>> /\ car.gearbox # <<>> /\ car.fuel # <<>> /\ car.mileage # 0

\* C31: a listing extracted with a location, a gearbox, a fuel and a mileage has
\* no detail fetch issued for it and is handed back, during the enrichment and in
\* what search_cars returns, with every field as extracted; a detail fetch is
\* issued only for a listing that misses one of the four.
C31_CompleteListingUntouched ==
    (s_pc \in {"enrich", "done"} /\ e_tasks # <<>>) =>
        \A k \in DOMAIN e_tasks :
            LET a == ExtractCars(s_html)[k]
            IN  /\ k \in e_fetched => ~NothingMissing(a)
                /\ e_tasks[k].pc = "fetching" => ~NothingMissing(a)
                /\ NothingMissing(a) =>
                      /\ k \notin e_fetched
                      /\ e_tasks[k].car = a
                      /\ e_tasks[k].how \in {"pending", "complete"}
                      /\ (s_pc = "done" /\ s_exit = "enriched") => s_result[k] = a

\* The call returned two listings: the complete one without a fetch and unchanged,
\* the other after its detail fetch.
C31_Witness ==
    /\ s_pc = "done"
    /\ s_exit = "enriched"
    /\ \E k, j \in DOMAIN e_tasks :
          /\ NothingMissing(ExtractCars(s_html)[k])
          /\ k \notin e_fetched
          /\ s_result[k] = ExtractCars(s_html)[k]
          /\ j \in e_fetched
          /\ e_tasks[j].how = "details"

\* Task k's detail fetch has just failed in this step.
FetchFailsAt(k) ==
    /\ e_tasks[k].pc = "fetching"
    /\ e_tasks'[k].pc = "done"
    /\ e_tasks'[k].how \in {"none", "raised"}

\* C33: the step in which a detail fetch fails (no dict returned, or an exception)
\* leaves the call in its enrichment with no error exit, hands the listing back
\* as it was, gives the permit back and touches no other task; a listing whose
\* fetch failed is, during the enrichment, as the extractor left it and is
\* returned so, apart from the placeholder in its empty location, gearbox, fuel.
C33_FailedFetchKeepsListing ==
    /\ [](\A k \in DOMAIN e_tasks :
            e_tasks[k].how \in {"none", "raised"} =>
                /\ e_tasks[k].car = ExtractCars(s_html)[k]
                /\ (s_pc = "done" /\ s_exit = "enriched") =>
                       s_result[k] = SetDefaults(<<ExtractCars(s_html)[k]>>)[1])
    /\ [][\A k \in DOMAIN e_tasks :
            FetchFailsAt(k) =>
                /\ s_pc' = "enrich" /\ s_exit' = s_exit /\ s_result' = s_result
                /\ e_tasks'[k].car = e_tasks[k].car
                /\ e_sem' = e_sem + 1
                /\ \A j \in DOMAIN e_tasks \ {k} : e_tasks'[j] = e_tasks[j]]_vars

\* One listing's fetch raised or returned nothing, after which the other listing
\* of the call took its gearbox from its detail page; the call returned both, the
\* first with the placeholder.
C33_Witness ==
    /\ s_pc = "done"
    /\ s_exit = "enriched"
    /\ \E k, j \in DOMAIN e_tasks :
          /\ e_order = <<k, j>>
          /\ e_tasks[k].how \in {"none", "raised"}
          /\ ExtractCars(s_html)[k].fuel = <<>>
          /\ s_result[k].fuel = T_dash
          /\ s_result[k].title = ExtractCars(s_html)[k].title
          /\ e_tasks[j].how = "details"
          /\ s_result[j] # SetDefaults(<<ExtractCars(s_html)[j]>>)[1]

\* The tasks of the call whose detail fetch is in flight.
InFlight == { k \in DOMAIN e_tasks : e_tasks[k].pc = "fetching" }

\* C32: at every moment of one search call the detail fetches in flight are at
\* most the enricher's permits, six, however many listings need their detail
\* page, and the free permits are the six less the fetches in flight.
C32_AtMostSixDetailFetches ==
    /\ Cardinality(InFlight) <= DetailsConcurrency
    /\ DetailsConcurrency = 6
    /\ s_pc = "enrich" => e_sem = DetailsConcurrency - Cardinality(InFlight)

\* Six fetches are in flight and a seventh listing that needs its detail page
\* waits for a permit.
C32_Witness ==
    /\ s_pc = "enrich"
    /\ Cardinality(InFlight) = DetailsConcurrency
    /\ \E k \in DOMAIN e_tasks : e_tasks[k].pc = "wait" /\ ~NothingMissing(e_tasks[k].car)

\* C34: a brand whose list get_models has stored stays in the model cache; from
\* then on no get_models call for that brand issues a request, and each returns
\* the list the cache holds for the brand, whatever the clock reads.
C34_ModelsCachedForGood ==
    /\ [](DOMAIN models_since = DOMAIN models_cache)
    /\ [][/\ DOMAIN models_cache \subseteq DOMAIN models_cache'
          /\ \A c \in DOMAIN calls :
                (calls[c].kind = "models" /\ calls[c].pc = "idle" /\ calls'[c].pc = "fetching") =>
                    calls'[c].brand \notin DOMAIN models_cache
          /\ (calls' = calls /\ c_ret' # c_ret /\ c_ret'.kind = "models") =>
                /\ c_ret'.via = "cache"
                /\ c_ret'.brand \in DOMAIN models_cache
                /\ c_ret'.result = models_cache[c_ret'.brand]
                /\ models_cache' = models_cache]_vars

\* A brand's list, stored more than the brands' and regions' time-to-live ago, has
\* just been returned from the cache.
C34_Witness ==
    /\ c_ret.kind = "models"
    /\ c_ret.via = "cache"
    /\ c_ret.result # <<>>
    /\ c_ret.brand \in DOMAIN models_since
    /\ c_ret.at - models_since[c_ret.brand] > CACHE_TTL

\* C35: a get_models call that is answered from the cache returns a list that is
\* not empty; on an empty cached list the call issues its request.
C35_EmptyModelListNeverServed ==
    (c_ret.kind = "models" /\ c_ret.via = "cache") => c_ret.result # <<>>

\* C36: with refreshes of get_brands (or get_states) interleaved at their awaits,
\* every step that changes the cached collection or its timestamp is the return of
\* one fetching call and sets both at once: the collection to what that call
\* normalised from its answer, the timestamp to the time that call read when it
\* began; so the cache always holds the pair of one refresh.
C36_CacheAndStampReplacedTogether ==
    [][/\ (brands_cache' # brands_cache \/ brands_last_update' # brands_last_update) =>
            \E c \in DOMAIN calls :
                /\ calls[c].kind = "brands" /\ calls[c].pc = "fetching" /\ calls'[c].pc = "idle"
                /\ c_ret' = Returned(calls[c], "fetch", brands_cache')
                /\ brands_last_update' = calls[c].now
                /\ \E data \in ApiResponses :
                      NormalizeBrands(data.v).ok /\ brands_cache' = NormalizeBrands(data.v).out
       /\ (states_cache' # states_cache \/ states_last_update' # states_last_update) =>
            \E c \in DOMAIN calls :
                /\ calls[c].kind = "states" /\ calls[c].pc = "fetching" /\ calls'[c].pc = "idle"
                /\ c_ret' = Returned(calls[c], "fetch", states_cache')
                /\ states_last_update' = calls[c].now
                /\ \E data \in ApiResponses :
                      NormalizeStates(data.v).ok /\ states_cache' = NormalizeStates(data.v).out
       /\ \A c \in DOMAIN calls :
            (calls[c].pc = "fetching" /\ calls'[c].pc = "idle" /\ c_ret'.via = "fetch") =>
                /\ calls[c].kind = "brands" =>
                      brands_cache' = c_ret'.result /\ brands_last_update' = calls[c].now
                /\ calls[c].kind = "states" =>
                      states_cache' = c_ret'.result /\ states_last_update' = calls[c].now]_vars

\* Two get_brands refreshes overlapped: the one that began first stored last, after
\* the other, and the cache holds its list with its own, older, timestamp.
C36_Witness ==
    /\ c_ret.kind = "brands"
    /\ c_ret.via = "fetch"
    /\ c_ret.overtaken
    /\ brands_cache = c_ret.result
    /\ brands_cache # <<>>
    /\ brands_last_update < c_ret.at

\* C39: whatever the table holds, a delete request of user uid for id sid removes
\* no row but the one with that id owned by uid; when the id is that of another
\* user's row the table after the request is the table before it.
C39_DeleteOnlyOwnRows ==
    \A sid \in 0..MaxSubs : \A uid \in Users :
        /\ \A r \in searches \ DeleteSearch(searches, sid, uid) : r.id = sid /\ r.user_id = uid
        /\ DeleteSearch(searches, sid, uid) \subseteq searches
        /\ (\E r \in searches : r.id = sid /\ r.user_id # uid) =>
               DeleteSearch(searches, sid, uid) = searches

\* The owner has deleted the first subscription; the second is still there, and
\* another user's request for its id would leave the table as it is.
C39_Witness ==
    /\ \A r \in searches : r.id # 1
    /\ \E r \in searches :
          /\ r.id = 2
          /\ \E uid \in Users \ {r.user_id} : DeleteSearch(searches, r.id, uid) = searches
          /\ DeleteSearch(searches, r.id, r.user_id) = searches \ {r}

\* The scheduler's safety filter lets a listing without a title through only when
\* it is skipped for the model name.
FilterSkipped(model_name) == SafetyFilter(model_name, <<[id |-> 1, title |-> <<>>]>>) # <<>>

\* The names the marketplace's list gives the model id.
ListedNames(model_id) ==
    { StrOf(FlowModels[k].name) : k \in { j \in DOMAIN FlowModels : IntOf(FlowModels[j].id).v = model_id } }

FullFlows ==
    { <<"brand", m, "year_from", "year_to", "price_from", "price_to", r, "fuel", "gearbox">> :
        m \in {"model", "skip_model"}, r \in {"region", "region_fallback"} }

\* The changes of state the order of the steps allows; start_sub begins anew from
\* any state.
FlowEdges ==
    { <<"choosing_brand", "choosing_model">>, <<"choosing_brand", "choosing_year_from">>,
      <<"choosing_model", "choosing_model_search">>, <<"choosing_model_search", "choosing_model">>,
      <<"choosing_model", "choosing_year_from">>, <<"choosing_year_from", "choosing_year_to">>,
      <<"choosing_year_to", "choosing_price_from">>, <<"choosing_price_from", "choosing_price_to">>,
      <<"choosing_price_to", "choosing_region">>, <<"choosing_price_to", "choosing_fuel">>,
      <<"choosing_region", "choosing_fuel">>, <<"choosing_fuel", "choosing_gearbox">>,
      <<"choosing_gearbox", "none">> }

\* C38: a row is inserted only by the step taken in the gearbox state; the state
\* moves only from one step to the next in the order
\* brand, model (or the skip without models), year from, year to, price from,
\* price to, region (or the fallback without regions), fuel, gearbox, or back to
\* the brand step by start_sub; so every row inserted comes after all those steps
\* in that order, and it has the brand id and name chosen and the status active.
C38_SavedOnlyAfterEveryStep ==
    /\ [](f_insert # <<>> =>
            LET r == f_insert[1]
            IN  /\ f_done \in FullFlows
                /\ r.status = "active"
                /\ r.user_id = FlowUser
                /\ r.brand_id \in BrandIds
                /\ r.brand # <<>> /\ r.brand # None
                /\ r.brand = FindNameById(FlowBrands, r.brand_id, None))
    /\ [][/\ f_insert' # <<>> => f_state = "choosing_gearbox"
          /\ f_state' # f_state =>
                \/ <<f_state, f_state'>> \in FlowEdges
                \/ f_state' = "choosing_brand"]_vars

\* A row has been saved at the end of a conversation that began anew with
\* start_sub, skipped the model step for want of models and the region step for
\* want of regions.
C38_Witness ==
    /\ f_insert # <<>>
    /\ f_done = <<"brand", "skip_model", "year_from", "year_to", "price_from", "price_to",
                  "region_fallback", "fuel", "gearbox">>
    /\ f_insert[1].model_id = 0
    /\ f_insert[1].region_id = 0
    /\ f_insert[1].year_from # 0

====
